---- MODULE Spec2Model ----
(***************************************************************************)
(* A model of mail-analyzer: email.Parse / extractBodyAndURLs /            *)
(* decodeCharset (src/email/email.go) and the mbox loop of main            *)
(* (src/unnamed/part_006).                                                 *)
(*                                                                         *)
(* Text is a sequence of one-character strings.  Two further symbols stand *)
(* for single units that are not ASCII: "0xB1" is the raw byte 0xB1 (not   *)
(* valid UTF-8 on its own), and "U+FF71", "U+FFFD", "JIS-17-17" are the    *)
(* runes the Japanese decoders produce from it.                            *)
(***************************************************************************)
EXTENDS Integers, Sequences, FiniteSets, TLC

(***************************************************************************)
(* Bounds of the model.                                                    *)
(***************************************************************************)
\* phrases per leaf text of a single-part message
MaxPhrases == 2
\* parts of a multipart message
MaxParts == 2
\* messages of an mbox container
MaxMsgs == 3
\* Parse invocations that run at the same time
MaxProcs == 2

(***************************************************************************)
(* Characters and words.                                                   *)
(***************************************************************************)
DQ == "\""
SQ == "'"
LT == "<"
GT == ">"
NL == "\n"
SP == " "
HiByte == "0xB1"

\* regexp class \s : [\t\n\f\r ]
IsSpaceRE(c) == c \in {"\t", "\n", "\f", "\r", " "}

\* unicode.IsSpace on the characters of the model (strings.TrimSpace)
IsSpaceUnicode(c) == c \in {"\t", "\n", "\f", "\r", " "}

\* the cutset of strings.TrimRight and the last class of urlRegex: ,.?!;)
TrailPunct == {".", "?", "!", ",", ";", ")"}

wHref == <<"h", "r", "e", "f">>
wHttp == <<"h", "t", "t", "p", ":", "/", "/">>
wHttps == <<"h", "t", "t", "p", "s", ":", "/", "/">>

Min(S) == CHOOSE x \in S : \A y \in S : x <= y
Max(S) == CHOOSE x \in S : \A y \in S : x >= y

\* the word w stands in t at position i
HasAt(t, i, w) ==
    /\ i >= 1
    /\ i + Len(w) - 1 <= Len(t)
    /\ \A k \in 1..Len(w) : t[i + k - 1] = w[k]

\* t[i..j], empty when j < i
Slice(t, i, j) == IF j < i THEN <<>> ELSE SubSeq(t, i, j)

\* w occurs in t as a contiguous run
Contains(t, w) == \E i \in 1..(Len(t) - Len(w) + 1) : HasAt(t, i, w)

\* https?:// at position i: the number of characters it takes, 0 when absent
SchemeLen(t, i) ==
    IF HasAt(t, i, wHttp) THEN Len(wHttp)
    ELSE IF HasAt(t, i, wHttps) THEN Len(wHttps)
    ELSE 0

\* \s* from position i: the first position at or after i that holds no space
SkipWS(t, i) ==
    CHOOSE j \in i..(Len(t) + 1) :
        /\ \A k \in i..(j - 1) : IsSpaceRE(t[k])
        /\ (j = Len(t) + 1 \/ ~IsSpaceRE(t[j]))

NoMatch == [ok |-> FALSE, from |-> 0, to |-> 0, end |-> 0]

(***************************************************************************)
(* hrefRegex  href\s*=\s*["'](https?://[^"]+)["']  at position i.          *)
(* from..to is submatch 1, end the last position of the whole match.       *)
(* [^"]+ is greedy: it runs to the last quote character (" or ') that no   *)
(* double quote precedes.                                                  *)
(***************************************************************************)
HrefMatchAt(t, i) ==
    LET e == SkipWS(t, i + Len(wHref))
        q == SkipWS(t, e + 1)
        n == SchemeLen(t, q + 1)
        s == q + 1 + n
        dqs == {j \in s..Len(t) : t[j] = DQ}
        stop == IF dqs = {} THEN Len(t) ELSE Min(dqs)
        closers == {c \in (s + 1)..stop : t[c] \in {DQ, SQ}}
    IN  IF /\ HasAt(t, i, wHref)
           /\ e <= Len(t) /\ t[e] = "="
           /\ q <= Len(t) /\ t[q] \in {DQ, SQ}
           /\ n > 0
           /\ closers # {}
        THEN [ok |-> TRUE, from |-> q + 1, to |-> Max(closers) - 1,
              end |-> Max(closers)]
        ELSE NoMatch

\* hrefRegex.FindAllStringSubmatch(t, -1), searching from position i
RECURSIVE HrefFrom(_, _)
HrefFrom(t, i) ==
    LET starts == {j \in i..Len(t) : HrefMatchAt(t, j).ok}
    IN  IF starts = {} THEN <<>>
        ELSE LET m == HrefMatchAt(t, Min(starts))
             IN  <<m>> \o HrefFrom(t, m.end + 1)

(***************************************************************************)
(* urlRegex  https?://[^\s"<>]*[^\s"<>,.?!;)]  at position i.              *)
(***************************************************************************)
IsUrlChar(c) == ~IsSpaceRE(c) /\ c \notin {DQ, LT, GT}

UrlMatchAt(t, i) ==
    LET n == SchemeLen(t, i)
        s == i + n
        bad == {j \in s..Len(t) : ~IsUrlChar(t[j])}
        runEnd == IF bad = {} THEN Len(t) ELSE Min(bad) - 1
        lasts == {j \in s..runEnd : t[j] \notin TrailPunct}
    IN  IF n > 0 /\ lasts # {}
        THEN [ok |-> TRUE, from |-> i, to |-> Max(lasts), end |-> Max(lasts)]
        ELSE NoMatch

\* urlRegex.FindAllString(t, -1), searching from position i
RECURSIVE UrlFrom(_, _)
UrlFrom(t, i) ==
    LET starts == {j \in i..Len(t) : UrlMatchAt(t, j).ok}
    IN  IF starts = {} THEN <<>>
        ELSE LET m == UrlMatchAt(t, Min(starts))
             IN  <<m>> \o UrlFrom(t, m.end + 1)

\* the matched strings of a list of matches
MatchTexts(t, ms) == [k \in 1..Len(ms) |-> Slice(t, ms[k].from, ms[k].to)]

(***************************************************************************)
(* regexp <.*?> : the end of the tag that opens at i, 0 when there is      *)
(* none.  "." matches no line feed.                                        *)
(***************************************************************************)
TagEnd(t, i) ==
    LET gts == {j \in (i + 1)..Len(t) :
                   t[j] = GT /\ \A k \in (i + 1)..(j - 1) : t[k] # NL}
    IN  IF t[i] = LT /\ gts # {} THEN Min(gts) ELSE 0

\* re.ReplaceAllString(t, " ") from position i
RECURSIVE StripFrom(_, _)
StripFrom(t, i) ==
    LET starts == {j \in i..Len(t) : TagEnd(t, j) > 0}
    IN  IF starts = {} THEN Slice(t, i, Len(t))
        ELSE Slice(t, i, Min(starts) - 1) \o <<SP>>
             \o StripFrom(t, TagEnd(t, Min(starts)) + 1)

StripTags(t) == StripFrom(t, 1)

\* a variant whose cutset lacks the full stop
TrimRightNoStop(u) ==
    LET keep == {j \in 1..Len(u) : u[j] \notin TrailPunct \ {"."}}
    IN  IF keep = {} THEN <<>> ELSE SubSeq(u, 1, Max(keep))

\* a variant that removes one trailing character of the cutset only
TrimRightOnce(u) ==
    IF Len(u) > 0 /\ u[Len(u)] \in TrailPunct
    THEN SubSeq(u, 1, Len(u) - 1)
    ELSE u

\* strings.TrimRight(u, ".?!,;)")
TrimRight(u) ==
    LET keep == {j \in 1..Len(u) : u[j] \notin TrailPunct}
    IN  IF keep = {} THEN <<>> ELSE SubSeq(u, 1, Max(keep))

\* strings.TrimSpace(t)
TrimSpace(t) ==
    LET keep == {j \in 1..Len(t) : ~IsSpaceUnicode(t[j])}
    IN  IF keep = {} THEN <<>> ELSE SubSeq(t, Min(keep), Max(keep))

\* a variant that removes one leading and one trailing angle bracket only
TrimIDOnce(t) ==
    LET a == IF Len(t) > 0 /\ t[1] = LT THEN 2 ELSE 1
        b == IF Len(t) >= a /\ t[Len(t)] = GT THEN Len(t) - 1 ELSE Len(t)
    IN  Slice(t, a, b)

\* strings.Trim(id, "<> ")
TrimID(t) ==
    LET keep == {j \in 1..Len(t) : t[j] \notin {LT, GT, SP}}
    IN  IF keep = {} THEN <<>> ELSE SubSeq(t, Min(keep), Max(keep))

(***************************************************************************)
(* Charset labels and decodeCharset.                                       *)
(***************************************************************************)
Upper == <<"A", "B", "C", "D", "E", "F", "G", "H", "I", "J", "K", "L", "M",
           "N", "O", "P", "Q", "R", "S", "T", "U", "V", "W", "X", "Y", "Z">>
Lower == <<"a", "b", "c", "d", "e", "f", "g", "h", "i", "j", "k", "l", "m",
           "n", "o", "p", "q", "r", "s", "t", "u", "v", "w", "x", "y", "z">>

ToLowerChar(c) ==
    IF \E k \in 1..Len(Upper) : Upper[k] = c
    THEN Lower[CHOOSE k \in 1..Len(Upper) : Upper[k] = c]
    ELSE c

\* a variant that leaves the label as it is written
ToLowerKeep(t) == t

\* strings.ToLower
ToLower(t) == [k \in 1..Len(t) |-> ToLowerChar(t[k])]

lIso2022jp == <<"i", "s", "o", "-", "2", "0", "2", "2", "-", "j", "p">>
lShiftJisU == <<"s", "h", "i", "f", "t", "_", "j", "i", "s">>
lShiftJisH == <<"s", "h", "i", "f", "t", "-", "j", "i", "s">>
lEucJpH == <<"e", "u", "c", "-", "j", "p">>
lEucJpU == <<"e", "u", "c", "_", "j", "p">>
lUtf8 == <<"u", "t", "f", "-", "8">>

\* japanese.ISO2022JP.NewDecoder(): a byte >= 0x80 becomes U+FFFD
DecodeISO2022JP(b) ==
    [k \in 1..Len(b) |-> IF b[k] = HiByte THEN "U+FFFD" ELSE b[k]]

\* a variant that copies every byte
DecodeShiftJISRaw(b) == b

\* japanese.ShiftJIS.NewDecoder(): 0xA1..0xDF are the half-width katakana
DecodeShiftJIS(b) ==
    [k \in 1..Len(b) |-> IF b[k] = HiByte THEN "U+FF71" ELSE b[k]]

\* japanese.EUCJP.NewDecoder(): 0xA1..0xFE leads a two-byte character;
\* without a second byte of that range it becomes U+FFFD
RECURSIVE EUCJPFrom(_, _)
EUCJPFrom(b, i) ==
    IF i > Len(b) THEN <<>>
    ELSE IF b[i] # HiByte THEN <<b[i]>> \o EUCJPFrom(b, i + 1)
    ELSE IF i + 1 <= Len(b) /\ b[i + 1] = HiByte
         THEN <<"JIS-17-17">> \o EUCJPFrom(b, i + 2)
    ELSE <<"U+FFFD">> \o EUCJPFrom(b, i + 1)

DecodeEUCJP(b) == EUCJPFrom(b, 1)

\* a variant in which the utf-8 case falls into the Shift_JIS case
DecoderForUtf8Decoded(lc) ==
    IF lc = lIso2022jp THEN "ISO2022JP"
    ELSE IF lc = lShiftJisU \/ lc = lShiftJisH \/ lc = lUtf8 THEN "ShiftJIS"
    ELSE IF lc = lEucJpH \/ lc = lEucJpU THEN "EUCJP"
    ELSE "unsupported"

\* the switch of decodeCharset: which decoder a lower-cased label selects
DecoderFor(lc) ==
    IF lc = lIso2022jp THEN "ISO2022JP"
    ELSE IF lc = lShiftJisU \/ lc = lShiftJisH THEN "ShiftJIS"
    ELSE IF lc = lEucJpH \/ lc = lEucJpU THEN "EUCJP"
    ELSE IF lc = lUtf8 THEN "utf-8"
    ELSE "unsupported"

\* transform.Bytes(decoder, content) when the transform reports no error
Transform(dec, b) ==
    IF dec = "ISO2022JP" THEN DecodeISO2022JP(b)
    ELSE IF dec = "ShiftJIS" THEN DecodeShiftJIS(b)
    ELSE DecodeEUCJP(b)

\* decodeCharset(content, charset); fails stands for transform.Bytes
\* returning an error
decodeCharset(content, charset, fails) ==
    LET dec == DecoderFor(ToLower(charset))
    IN  IF dec = "utf-8" THEN [err |-> FALSE, out |-> content]
        ELSE IF dec = "unsupported" THEN [err |-> TRUE, out |-> <<>>]
        ELSE IF fails THEN [err |-> TRUE, out |-> <<>>]
        ELSE [err |-> FALSE, out |-> Transform(dec, content)]

\* a variant that takes the result of decodeCharset also when it failed
DecodeIgnoringError(content, charset, fails) ==
    IF charset = <<>> THEN content
    ELSE decodeCharset(content, charset, fails).out

\* "Decode charset if specified": the bytes the harvest works on
DecodeIfSpecified(content, charset, fails) ==
    IF charset = <<>> THEN content
    ELSE LET d == decodeCharset(content, charset, fails)
         IN  IF ~d.err THEN d.out ELSE content

(***************************************************************************)
(* The harvest of one text leaf: the href pass, the tag strip of an HTML   *)
(* leaf, the free-text pass.  urls is what is appended to urls, text what  *)
(* is written to bodyBuilder.                                              *)
(***************************************************************************)
HrefPass(t) == MatchTexts(t, HrefFrom(t, 1))

FreePass(t) == MatchTexts(t, UrlFrom(t, 1))

BodyTextOf(t, minor) == IF minor = "html" THEN StripTags(t) ELSE t

\* a variant that runs the free-text pass before the href pass
LeafHarvestFreeFirst(t, minor) ==
    [urls |-> FreePass(BodyTextOf(t, minor)) \o HrefPass(t),
     text |-> BodyTextOf(t, minor)]

LeafHarvest(t, minor) ==
    [urls |-> HrefPass(t) \o FreePass(BodyTextOf(t, minor)),
     text |-> BodyTextOf(t, minor)]

\* the loop over urls: trim, then keep the first of equal strings
RECURSIVE DedupFrom(_, _, _)
DedupFrom(us, i, acc) ==
    IF i > Len(us) THEN acc
    ELSE LET u == TrimRight(us[i])
         IN  IF \E k \in 1..Len(acc) : acc[k] = u
             THEN DedupFrom(us, i + 1, acc)
             ELSE DedupFrom(us, i + 1, Append(acc, u))

\* a variant that compares the untrimmed strings and trims afterwards
RECURSIVE DedupRawFrom(_, _, _)
DedupRawFrom(us, i, acc) ==
    IF i > Len(us) THEN [k \in 1..Len(acc) |-> TrimRight(acc[k])]
    ELSE IF \E k \in 1..Len(acc) : acc[k] = us[i]
         THEN DedupRawFrom(us, i + 1, acc)
         ELSE DedupRawFrom(us, i + 1, Append(acc, us[i]))

DedupThenTrim(us) == DedupRawFrom(us, 1, <<>>)

TrimAndDedup(us) == DedupFrom(us, 1, <<>>)

\* a variant that takes every text/* type
IsTextLeafAnyText(major, minor) == major = "text"

IsTextLeaf(major, minor) == major = "text" /\ minor \in {"plain", "html"}

(***************************************************************************)
(* One iteration of the multipart loop on the next event of the reader:    *)
(* a part, or an error of NextPart.  acc is [urls, body].                  *)
(***************************************************************************)
\* a variant that takes a part without a usable Content-Type as text/plain
PartStepUntyped(acc, part) ==
    IF part.nextErr \/ part.readErr THEN acc
    ELSE IF ~part.ctErr /\ ~IsTextLeaf(part.major, part.minor) THEN acc
    ELSE LET content == DecodeIfSpecified(part.content, part.charset,
                                          part.decodeFails)
             minor == IF part.ctErr THEN "plain" ELSE part.minor
             h == LeafHarvest(content, minor)
         IN  [urls |-> acc.urls \o h.urls,
              body |-> acc.body \o h.text \o <<NL>>]

\* a variant that trims the text of every part before it is written
PartStepTrimmed(acc, part) ==
    IF part.nextErr \/ part.ctErr \/ part.readErr THEN acc
    ELSE IF ~IsTextLeaf(part.major, part.minor) THEN acc
    ELSE LET content == DecodeIfSpecified(part.content, part.charset,
                                          part.decodeFails)
             h == LeafHarvest(content, part.minor)
         IN  [urls |-> acc.urls \o h.urls,
              body |-> acc.body \o TrimSpace(h.text) \o <<NL>>]

PartStep(acc, part) ==
    IF part.nextErr \/ part.ctErr \/ part.readErr THEN acc
    ELSE IF ~IsTextLeaf(part.major, part.minor) THEN acc
    ELSE LET content == DecodeIfSpecified(part.content, part.charset,
                                          part.decodeFails)
             h == LeafHarvest(content, part.minor)
         IN  [urls |-> acc.urls \o h.urls,
              body |-> acc.body \o h.text \o <<NL>>]

\* the non-multipart branch
SingleStep(acc, m) ==
    LET content == DecodeIfSpecified(m.body, m.charset, m.decodeFails)
        h == LeafHarvest(content, m.minor)
    IN  [urls |-> acc.urls \o h.urls, body |-> acc.body \o h.text]

\* mediaType, params of entity.Header.ContentType(), text/plain on error
TopType(m) ==
    IF m.ctErr
    THEN [major |-> "text", minor |-> "plain", charset |-> <<>>,
          boundary |-> ""]
    ELSE [major |-> m.major, minor |-> m.minor, charset |-> m.charset,
          boundary |-> m.boundary]


(***************************************************************************)
(* The messages the model parses.                                          *)
(***************************************************************************)
wUrlA == <<"h", "t", "t", "p", ":", "/", "/", "a">>
wUrlB == <<"h", "t", "t", "p", "s", ":", "/", "/", "b">>
NoCharset == <<>>
lUTF8Upper == <<"U", "T", "F", "-", "8">>
lUtf8Mixed == <<"U", "t", "f", "-", "8">>
lShiftJISUpper == <<"S", "h", "i", "f", "t", "_", "J", "I", "S">>
lEUCJPUpper == <<"E", "U", "C", "-", "J", "P">>
lIso2022jpUpper == <<"I", "S", "O", "-", "2", "0", "2", "2", "-", "J", "P">>
lShiftJisHUpper == <<"S", "H", "I", "F", "T", "-", "J", "I", "S">>
lEucJpUMixed == <<"E", "u", "c", "_", "j", "P">>
lIso2022jpMixed == <<"i", "S", "o", "-", "2", "0", "2", "2", "-", "J", "p">>
lLatin1 == <<"i", "s", "o", "-", "8", "8", "5", "9", "-", "1">>
lUtf8NoHyphen == <<"u", "t", "f", "8">>

\* the charset labels of the model: those of the decoder table in several
\* letter cases, and labels the table does not hold
Labels ==
    {lUtf8, lUTF8Upper, lUtf8Mixed, lIso2022jp, lIso2022jpUpper,
     lIso2022jpMixed, lShiftJisU, lShiftJisH, lShiftJISUpper, lShiftJisHUpper,
     lEucJpH, lEucJpU, lEUCJPUpper, lEucJpUMixed, lLatin1, lUtf8NoHyphen}

\* the pieces leaf texts are made of
Phrases ==
    {wUrlA, wUrlB,
     <<"h", "t", "t", "p", ":", "/", "/", "a", ".">>,
     <<"h", "t", "t", "p", "s", ":", "/", "/", "b", ")", ".">>,
     <<"h", "t", "t", "p", ":", "/", "/">>,
     <<SP>>, <<NL>>, <<".">>, <<")">>, <<DQ>>, <<SQ>>, <<LT>>, <<GT>>,
     <<"x">>, <<HiByte>>,
     <<"<", "a", " ", "h", "r", "e", "f", "=", DQ, "h", "t", "t", "p", ":",
         "/", "/", "a", DQ, ">">>,
     <<"<", "a", " ", "h", "r", "e", "f", "=", "'", "h", "t", "t", "p", "s",
         ":", "/", "/", "b", "'", ">">>,
     <<"<", "a", " ", "h", "r", "e", "f", " ", "=", " ", DQ, "h", "t", "t",
         "p", "s", ":", "/", "/", "b", ")", ".", DQ, ">">>,
     <<"h", "r", "e", "f", "=", DQ, "h", "t", "t", "p", ":", "/", "/", "a">>,
     <<"<", "b", ">">>,
     <<"<", "a", " ", "h", "r", "e", "f", "=", DQ, "h", "t", "t", "p", ":", "/",
         "/", "a", " ", "b", DQ, ">">>}

\* the texts of at most n phrases
RECURSIVE TextsUpTo(_)
TextsUpTo(n) ==
    IF n = 0 THEN {<<>>}
    ELSE LET prev == TextsUpTo(n - 1)
         IN  prev \cup {p \o t : p \in Phrases, t \in prev}

\* the bodies of the tests of the email package
PlainTestBody == <<"T", "h", "i", "s", " ", "i", "s", " ", "t", "h", "e",
    " ", "b", "o", "d", "y", ".", " ", "C", "h", "e", "c", "k", " ", "o",
    "u", "t", " ", "h", "t", "t", "p", ":", "/", "/", "e", "x", "a", "m",
    "p", "l", "e", ".", "c", "o", "m", ".", " ", "\r", NL, "A", "n", "o",
    "t", "h", "e", "r", " ", "l", "i", "n", "k", ":", " ", "h", "t", "t",
    "p", "s", ":", "/", "/", "g", "o", "o", "g", "l", "e", ".", "c", "o",
    "m", "/", "s", "e", "a", "r", "c", "h", "?", "q", "=", "t", "e", "s",
    "t">>
HTMLTestBody == <<"<", "h", "1", ">", "H", "e", "l", "l", "o", "<", "/", "h",
    "1", ">", "<", "p", ">", "T", "h", "i", "s", " ", "i", "s", " ", "a",
    " ", "<", "a", " ", "h", "r", "e", "f", "=", DQ, "h", "t", "t", "p", "s",
    ":", "/", "/", "e", "x", "a", "m", "p", "l", "e", ".", "o", "r", "g", DQ,
    ">", "l", "i", "n", "k", "<", "/", "a", ">", ".", "<", "/", "p", ">">>
DedupTestBody == <<"U", "R", "L", " ", "1", ":", " ", "h", "t", "t", "p",
    ":", "/", "/", "e", "x", "a", "m", "p", "l", "e", ".", "c", "o", "m",
    ".", " ", "U", "R", "L", " ", "2", ":", " ", "h", "t", "t", "p", ":",
    "/", "/", "e", "x", "a", "m", "p", "l", "e", ".", "c", "o", "m", ".",
    " ", "U", "R", "L", " ", "3", ":", " ", "<", "a", " ", "h", "r", "e",
    "f", "=", DQ, "h", "t", "t", "p", ":", "/", "/", "e", "x", "a", "m", "p",
    "l", "e", ".", "c", "o", "m", DQ, ">", "e", "x", "a", "m", "p", "l", "e",
    "<", "/", "a", ">">>
TrimTestBody == <<"C", "h", "e", "c", "k", " ", "t", "h", "i", "s", " ", "o",
    "u", "t", ":", " ", "h", "t", "t", "p", ":", "/", "/", "e", "x", "a",
    "m", "p", "l", "e", ".", "c", "o", "m", "/", "p", "a", "g", "e", ",",
    " ", "o", "r", " ", "t", "h", "i", "s", " ", "o", "n", "e", ":", " ",
    "h", "t", "t", "p", ":", "/", "/", "g", "o", "o", "g", "l", "e", ".",
    "c", "o", "m", ")", ".">>
MultipartTestPlain == <<"P", "l", "a", "i", "n", " ", "t", "e", "x", "t",
    " ", "p", "a", "r", "t", ".", " ", "U", "R", "L", ":", " ", "h", "t",
    "t", "p", ":", "/", "/", "p", "l", "a", "i", "n", ".", "c", "o", "m">>
MultipartTestHTML == <<"<", "p", ">", "H", "T", "M", "L", " ", "p", "a", "r",
    "t", ".", " ", "U", "R", "L", ":", " ", "<", "a", " ", "h", "r", "e",
    "f", "=", DQ, "h", "t", "t", "p", ":", "/", "/", "h", "t", "m", "l", ".",
    "c", "o", "m", DQ, ">", "h", "t", "m", "l", "<", "/", "a", ">", "<", "/",
    "p", ">">>

\* a tag whose span holds a line break
MultilineTagBody == <<"<", "i", "m", "g", NL, "s", "r", "c", "=", DQ, "h",
    "t", "t", "p", ":", "/", "/", "a", DQ, ">", "x">>

\* an href whose value is a scheme and trailing punctuation only
HrefDotBody == <<"<", "a", " ", "h", "r", "e", "f", "=", DQ, "h", "t", "t",
    "p", ":", "/", "/", ".", DQ, ">", "x", "<", "/", "a", ">">>

TestBodies ==
    {PlainTestBody, HTMLTestBody, DedupTestBody, TrimTestBody,
     MultilineTagBody, HrefDotBody}

\* texts that hold a byte of a legacy encoding
LegacyTexts ==
    {<<HiByte>>, <<HiByte, HiByte>>, <<"x", HiByte, SP>> \o wUrlA \o <<".">>}

Part(major, minor, charset, content) ==
    [nextErr |-> FALSE, ctErr |-> FALSE, readErr |-> FALSE,
     major |-> major, minor |-> minor, charset |-> charset,
     decodeFails |-> FALSE, content |-> content, children |-> <<>>]

\* the raw payload of a multipart entity with boundary "b" (RFC 2046)
wDelim == <<"-", "-", "b">>
wClose == <<"-", "-", "b", "-", "-">>
wContentType == <<"C", "o", "n", "t", "e", "n", "t", "-", "T", "y", "p", "e",
    ":", " ">>
wSlash == <<"/">>
Word(s) ==
    CASE s = "text" -> <<"t", "e", "x", "t">>
      [] s = "plain" -> <<"p", "l", "a", "i", "n">>
      [] s = "html" -> <<"h", "t", "m", "l">>
      [] s = "multipart" -> <<"m", "u", "l", "t", "i", "p", "a", "r", "t">>
      [] s = "alternative" -> <<"a", "l", "t", "e", "r", "n", "a", "t", "i",
          "v", "e">>
      [] s = "mixed" -> <<"m", "i", "x", "e", "d">>
      [] s = "application" -> <<"a", "p", "p", "l", "i", "c", "a", "t", "i",
          "o", "n">>
      [] s = "pdf" -> <<"p", "d", "f">>

RECURSIVE PayloadFrom(_, _)
PayloadFrom(children, i) ==
    IF i > Len(children) THEN wClose
    ELSE wDelim \o <<NL>> \o wContentType \o Word(children[i].major)
         \o wSlash \o Word(children[i].minor) \o <<NL, NL>>
         \o children[i].content \o <<NL>> \o PayloadFrom(children, i + 1)

MultipartPayload(children) == PayloadFrom(children, 1)

\* a multipart/alternative child that holds a text/plain and a text/html leaf
NestedChildren ==
    {<<Part("text", "plain", NoCharset, a), Part("text", "html", NoCharset,
        b)>> :
        a \in {wUrlA, <<"x">>}, b \in {<<"<", "a", " ", "h", "r", "e", "f",
            "=", "'", "h", "t", "t", "p", "s", ":", "/", "/", "b", "'",
            ">">>, wUrlB}}

NestedPart(children) ==
    [Part("multipart", "alternative", NoCharset, MultipartPayload(children))
        EXCEPT !.children = children]

PartTexts ==
    {<<>>, <<"x">>, wUrlA \o <<".">>, wUrlB, <<SP>>, <<"x", SP>>, <<SP, "y">>,
     wUrlA \o <<"<", "a", " ", "h", "r", "e", "f", "=", "'", "h", "t", "t",
         "p", "s", ":", "/", "/", "b", "'", ">">>,
     <<"<", "a", " ", "h", "r", "e", "f", "=", DQ, "h", "t", "t", "p", ":",
         "/", "/", "a", DQ, ">">>,
     <<"<", "a", " ", "h", "r", "e", "f", " ", "=", " ", DQ, "h", "t", "t",
         "p", "s", ":", "/", "/", "b", ")", ".", DQ, ">">>}

\* the events the multipart reader can deliver: parts, and errors
PartSet ==
    {Part("text", minor, NoCharset, t) : minor \in {"plain", "html"},
                                          t \in PartTexts}
    \cup {Part("text", "plain", cs, <<"x", HiByte>>) :
             cs \in {lUTF8Upper, lShiftJISUpper, lEucJpH, lLatin1}}
    \cup {[Part("text", "plain", lIso2022jp, <<"x", HiByte>>)
              EXCEPT !.decodeFails = TRUE]}
    \cup {Part("application", "pdf", NoCharset, wUrlA),
          Part("text", "calendar", NoCharset, wUrlB)}
    \cup {[Part("text", "plain", NoCharset, wUrlA) EXCEPT !.nextErr = TRUE],
          [Part("text", "plain", NoCharset, wUrlA) EXCEPT !.ctErr = TRUE],
          [Part("text", "plain", NoCharset, wUrlA) EXCEPT !.readErr = TRUE]}
    \cup {NestedPart(c) : c \in NestedChildren}

RECURSIVE SeqsUpTo(_, _)
SeqsUpTo(S, n) ==
    IF n = 0 THEN {<<>>}
    ELSE LET prev == SeqsUpTo(S, n - 1)
         IN  prev \cup {<<x>> \o t : x \in S, t \in prev}

wID1 == <<"<", "m", "1", "@", "x", ">">>

Message(major, minor, charset, body) ==
    [readErr |-> FALSE, ctErr |-> FALSE, major |-> major, minor |-> minor,
     charset |-> charset, boundary |-> "", decodeFails |-> FALSE,
     body |-> body, bodyErr |-> FALSE, parts |-> <<>>, messageID |-> wID1]

Multipart(minor, parts) ==
    [Message("multipart", minor, NoCharset, <<>>)
        EXCEPT !.boundary = "b", !.parts = parts]

MultipartTestMessage ==
    Multipart("alternative",
              <<Part("text", "plain", lUtf8, MultipartTestPlain),
                Part("text", "html", lUtf8, MultipartTestHTML)>>)

\* single-part messages without a charset parameter
PlainMessages ==
    {Message("text", minor, NoCharset, t) :
        minor \in {"plain", "html"},
        t \in TextsUpTo(MaxPhrases) \cup TestBodies}
    \cup {[Message("text", "html", NoCharset, t) EXCEPT !.ctErr = TRUE] :
             t \in TextsUpTo(1)}
    \cup {Message("application", "pdf", NoCharset, t) : t \in TextsUpTo(1)}
    \cup {Message("text", "calendar", NoCharset, t) : t \in TextsUpTo(1)}

\* single-part messages that declare a charset
CharsetMessages ==
    {[Message("text", minor, cs, t) EXCEPT !.decodeFails = f] :
        minor \in {"plain", "html"}, cs \in Labels, t \in LegacyTexts,
        f \in BOOLEAN}

\* multipart messages
MultipartMessages ==
    {Multipart("mixed", ps) : ps \in SeqsUpTo(PartSet, MaxParts)}
    \cup {MultipartTestMessage}
    \cup {Message("multipart", "mixed", cs, t) :
             cs \in {NoCharset, lShiftJISUpper},
             t \in TextsUpTo(1) \cup LegacyTexts}

\* the events of the multipart reader that end an iteration with a warning
FailingParts ==
    {[Part("text", "plain", NoCharset, wUrlA) EXCEPT !.nextErr = TRUE],
     [Part("text", "plain", NoCharset, wUrlA) EXCEPT !.ctErr = TRUE],
     [Part("text", "html", NoCharset, wUrlA) EXCEPT !.readErr = TRUE]}

\* multipart messages of three events, the second of which fails
SkippedChildMessages ==
    {Multipart("mixed", <<p, bad, q>>) :
        p \in {Part("text", "plain", NoCharset, wUrlA \o <<".">>),
               Part("text", "html", NoCharset, <<"x">>)},
        bad \in FailingParts,
        q \in {Part("text", "plain", NoCharset, wUrlB),
               Part("text", "html", NoCharset, <<"<", "b", ">", "y">>)}}

\* what header.MessageID() can yield: identifiers with and without angle
\* brackets and spaces around them and inside them
wPlainID == <<"p", "l", "a", "i", "n", "@", "e", "x", "a", "m", "p", "l", "e",
    ".", "c", "o", "m">>
MessageIDs ==
    {pre \o core \o post :
        pre \in {<<>>, <<LT>>, <<SP, LT>>, <<LT, LT>>, <<GT, SP>>},
        core \in {<<>>, <<"m", "@", "x">>, <<"a", LT, "b">>, <<"a", SP, GT, "b">>,
                  wPlainID},
        post \in {<<>>, <<GT>>, <<GT, SP>>, <<GT, GT>>, <<SP, LT>>}}

\* messages that differ in their Message-ID
IDMessages ==
    {[Message("text", "plain", NoCharset, <<"x">>) EXCEPT !.messageID = id] :
        id \in MessageIDs}

\* messages message.Read or io.ReadAll fails on
BrokenMessages ==
    {[Message("text", "plain", NoCharset, wUrlA) EXCEPT !.readErr = TRUE],
     [Message("text", "plain", NoCharset, wUrlA) EXCEPT !.bodyErr = TRUE],
     [Message("text", "html", NoCharset, wUrlA) EXCEPT !.bodyErr = TRUE]}

Messages ==
    PlainMessages \cup CharsetMessages \cup MultipartMessages
    \cup SkippedChildMessages \cup IDMessages \cup BrokenMessages


(***************************************************************************)
(* extractBodyAndURLs and Parse as functions of the message.               *)
(***************************************************************************)
Nil == "nil"

\* *ParsedEmail: the empty sequence is the nil pointer, <<r>> points at r
NilEmail == <<>>

EmptyAcc == [urls |-> <<>>, body |-> <<>>]

RECURSIVE PartsFrom(_, _, _)
PartsFrom(parts, i, acc) ==
    IF i > Len(parts) THEN acc
    ELSE PartsFrom(parts, i + 1, PartStep(acc, parts[i]))

\* what the branches of extractBodyAndURLs leave in urls and bodyBuilder
Accumulate(m) ==
    LET ct == TopType(m)
    IN  IF ct.major = "multipart"
        THEN IF ct.boundary = ""
             THEN [urls |-> <<>>, body |-> m.body]
             ELSE PartsFrom(m.parts, 1, EmptyAcc)
        ELSE IF IsTextLeaf(ct.major, ct.minor)
             THEN SingleStep(EmptyAcc, [m EXCEPT !.charset = ct.charset,
                                                 !.minor = ct.minor])
        ELSE EmptyAcc

\* the last lines of extractBodyAndURLs and the record Parse builds
Finish(m, acc) ==
    [email |-> <<[MessageID |-> TrimID(m.messageID),
                  Body |-> TrimSpace(acc.body),
                  URLs |-> TrimAndDedup(acc.urls)]>>,
     err |-> Nil]

Failure(why) == [email |-> NilEmail, err |-> why]

BodyReadFails(m) ==
    LET ct == TopType(m)
    IN  ct.major # "multipart" /\ IsTextLeaf(ct.major, ct.minor) /\ m.bodyErr

Parse(m) ==
    IF m.readErr THEN Failure("failed to read message entity")
    ELSE IF BodyReadFails(m) THEN Failure("read body")
    ELSE Finish(m, Accumulate(m))

(***************************************************************************)
(* The state: one Parse call in progress (msg .. result), and the loop of  *)
(* main over an mbox container (mbox .. warnings).                         *)
(***************************************************************************)
VARIABLES
    msg,          \* the message Parse is given
    pc,           \* the position in Parse
    idx,          \* the next event of the multipart reader
    urls,         \* urls of extractBodyAndURLs
    bodyBuilder,  \* bodyBuilder of extractBodyAndURLs
    result,       \* what Parse has returned, NoResult before
    mbox,         \* the items of the container main reads
    mpos,         \* the next item of the mbox reader
    results,      \* results of main
    warnings,     \* the items main logged a warning for, in order
    mainPc,       \* the position in main
    environ,      \* the environment of the process: name -> <<>> or <<value>>
    path,         \* the path config.Load is given
    configFile,   \* the file at that path
    cfg,          \* cfg of config.Load
    loadPc,       \* the position in config.Load
    loadResult,   \* what config.Load has returned
    stuckAt,      \* the reader event from which the body's reader fails, 0: never
    partWarnings, \* the parity of the warnings the loop logged for NextPart
    anEmail,      \* email of Analyze
    anPc,         \* the position in Analyze and in AnalyzeText
    prompt,       \* prompt of AnalyzeText
    tools,        \* tools of AnalyzeText
    toolChoice,   \* toolChoice of AnalyzeText
    calls,        \* how many times the provider has been called
    apiResponse,  \* what the API answers to the request
    judgment,     \* what AnalyzeText has returned
    anResult,     \* what Analyze has returned
    convReader,   \* r of ConvertToUTF8: the reader and the bytes it holds
    convPc,       \* the position in ConvertToUTF8
    converted     \* what ConvertToUTF8 has returned

vars == <<msg, pc, idx, urls, bodyBuilder, result, mbox, mpos, results,
          warnings, mainPc, environ, path, configFile, cfg, loadPc,
          loadResult, stuckAt, partWarnings, anEmail, anPc, prompt, tools, toolChoice, calls,
          apiResponse, judgment, anResult, convReader, convPc,
          converted>>
parseVars == <<msg, pc, idx, urls, bodyBuilder, result>>
mainVars == <<mbox, mpos, results, warnings, mainPc>>
cfgVars == <<environ, path, configFile, cfg, loadPc, loadResult>>
anVars == <<anEmail, anPc, prompt, tools, toolChoice, calls, apiResponse,
            judgment, anResult>>
convVars == <<convReader, convPc, converted>>
readerVars == <<stuckAt, partWarnings>>
extVars == <<readerVars, anVars, convVars>>

\* config.Load is not running
ConfigIdle ==
    /\ environ = <<>>
    /\ path = ""
    /\ configFile = <<>>
    /\ cfg = <<>>
    /\ loadPc = "Idle"
    /\ loadResult = <<>>

\* Analyze is not running
AnalyzeIdle ==
    /\ anEmail = <<>>
    /\ anPc = "Idle"
    /\ prompt = <<>>
    /\ tools = <<>>
    /\ toolChoice = ""
    /\ calls = 0
    /\ apiResponse = <<>>
    /\ judgment = [judgment |-> <<>>, err |-> Nil]
    /\ anResult = [judgment |-> <<>>, err |-> Nil]

\* ConvertToUTF8 is not running
ConvertIdle ==
    /\ convReader = <<>>
    /\ convPc = "Idle"
    /\ converted = <<>>

\* the body's reader never fails for good
ReaderSound == stuckAt = 0 /\ partWarnings = 0

NoResult == [email |-> NilEmail, err |-> Nil]

Init ==
    /\ msg \in Messages
    /\ pc = "Parse"
    /\ idx = 1
    /\ urls = <<>>
    /\ bodyBuilder = <<>>
    /\ result = NoResult
    /\ mbox = <<>>
    /\ mpos = 1
    /\ results = <<>>
    /\ warnings = <<>>
    /\ mainPc = "Idle"
    /\ ConfigIdle
    /\ ReaderSound
    /\ AnalyzeIdle
    /\ ConvertIdle

\* a variant that returns the error together with a record
ParseReadFailsWithRecord ==
    /\ pc = "Parse"
    /\ msg.readErr
    /\ result' = [Finish(msg, EmptyAcc)
                     EXCEPT !.err = "failed to read message entity"]
    /\ pc' = "Done"
    /\ UNCHANGED <<msg, idx, urls, bodyBuilder>>
    /\ UNCHANGED mainVars
    /\ UNCHANGED cfgVars
    /\ UNCHANGED extVars

\* message.Read fails
ParseReadFails ==
    /\ pc = "Parse"
    /\ msg.readErr
    /\ result' = Failure("failed to read message entity")
    /\ pc' = "Done"
    /\ UNCHANGED <<msg, idx, urls, bodyBuilder>>
    /\ UNCHANGED mainVars
    /\ UNCHANGED cfgVars
    /\ UNCHANGED extVars

\* a variant that harvests the payload like a text/plain body
ExtractNoBoundaryHarvested ==
    /\ pc = "Parse"
    /\ ~msg.readErr
    /\ TopType(msg).major = "multipart"
    /\ TopType(msg).boundary = ""
    /\ bodyBuilder' = bodyBuilder \o msg.body
    /\ urls' = urls \o LeafHarvest(msg.body, "plain").urls
    /\ pc' = "Dedup"
    /\ UNCHANGED <<msg, idx, result>>
    /\ UNCHANGED mainVars
    /\ UNCHANGED cfgVars
    /\ UNCHANGED extVars

\* multipart/* without a boundary: the payload goes to the body
ExtractNoBoundary ==
    /\ pc = "Parse"
    /\ ~msg.readErr
    /\ TopType(msg).major = "multipart"
    /\ TopType(msg).boundary = ""
    /\ bodyBuilder' = bodyBuilder \o msg.body
    /\ pc' = "Dedup"
    /\ UNCHANGED <<msg, idx, urls, result>>
    /\ UNCHANGED mainVars
    /\ UNCHANGED cfgVars
    /\ UNCHANGED extVars

\* multipart/* with a boundary: multipart.NewReader
ExtractMultipart ==
    /\ pc = "Parse"
    /\ ~msg.readErr
    /\ TopType(msg).major = "multipart"
    /\ TopType(msg).boundary # ""
    /\ idx' = 1
    /\ pc' = "NextPart"
    /\ UNCHANGED <<msg, urls, bodyBuilder, result>>
    /\ UNCHANGED mainVars
    /\ UNCHANGED cfgVars
    /\ UNCHANGED extVars

\* mr.NextPart() reports io.EOF
NextPartEOF ==
    /\ pc = "NextPart"
    /\ idx # stuckAt
    /\ idx > Len(msg.parts)
    /\ pc' = "Dedup"
    /\ UNCHANGED <<msg, idx, urls, bodyBuilder, result>>
    /\ UNCHANGED mainVars
    /\ UNCHANGED cfgVars
    /\ UNCHANGED extVars

\* one iteration of the loop
NextPart ==
    /\ pc = "NextPart"
    /\ idx # stuckAt
    /\ idx <= Len(msg.parts)
    /\ \E acc \in {PartStep([urls |-> urls, body |-> bodyBuilder],
                             msg.parts[idx])} :
           /\ urls' = acc.urls
           /\ bodyBuilder' = acc.body
    /\ idx' = idx + 1
    /\ UNCHANGED <<msg, pc, result>>
    /\ UNCHANGED mainVars
    /\ UNCHANGED cfgVars
    /\ UNCHANGED extVars

\* text/plain or text/html, io.ReadAll fails
ExtractSingleReadFails ==
    /\ pc = "Parse"
    /\ ~msg.readErr
    /\ BodyReadFails(msg)
    /\ result' = Failure("read body")
    /\ pc' = "Done"
    /\ UNCHANGED <<msg, idx, urls, bodyBuilder>>
    /\ UNCHANGED mainVars
    /\ UNCHANGED cfgVars
    /\ UNCHANGED extVars

\* text/plain or text/html
ExtractSingle ==
    /\ pc = "Parse"
    /\ ~msg.readErr
    /\ TopType(msg).major # "multipart"
    /\ IsTextLeaf(TopType(msg).major, TopType(msg).minor)
    /\ ~msg.bodyErr
    /\ \E acc \in {SingleStep([urls |-> urls, body |-> bodyBuilder],
                             [msg EXCEPT !.charset = TopType(msg).charset,
                                         !.minor = TopType(msg).minor])} :
           /\ urls' = acc.urls
           /\ bodyBuilder' = acc.body
    /\ pc' = "Dedup"
    /\ UNCHANGED <<msg, idx, result>>
    /\ UNCHANGED mainVars
    /\ UNCHANGED cfgVars
    /\ UNCHANGED extVars

\* any other media type: nothing is read
ExtractOther ==
    /\ pc = "Parse"
    /\ ~msg.readErr
    /\ TopType(msg).major # "multipart"
    /\ ~IsTextLeaf(TopType(msg).major, TopType(msg).minor)
    /\ pc' = "Dedup"
    /\ UNCHANGED <<msg, idx, urls, bodyBuilder, result>>
    /\ UNCHANGED mainVars
    /\ UNCHANGED cfgVars
    /\ UNCHANGED extVars

\* the dedup loop, the return of extractBodyAndURLs and of Parse
Return ==
    /\ pc = "Dedup"
    /\ result' = Finish(msg, [urls |-> urls, body |-> bodyBuilder])
    /\ pc' = "Done"
    /\ UNCHANGED <<msg, idx, urls, bodyBuilder>>
    /\ UNCHANGED mainVars
    /\ UNCHANGED cfgVars
    /\ UNCHANGED extVars

Next ==
    \/ ParseReadFails
    \/ ExtractNoBoundary
    \/ ExtractMultipart
    \/ NextPartEOF
    \/ NextPart
    \/ ExtractSingleReadFails
    \/ ExtractSingle
    \/ ExtractOther
    \/ Return

Spec == Init /\ [][Next]_vars

\* Parse on a reader that may fail for good: from event stuckAt on, every
\* read of the body returns the same error, other than io.EOF
ReaderParts ==
    FailingParts \cup {Part("text", "plain", NoCharset, <<"x">>),
                       Part("text", "html", NoCharset, <<"y">>)}

ReaderMessages ==
    BrokenMessages
    \cup {Message("text", "plain", NoCharset, <<"x">>),
          Message("text", "html", NoCharset, <<"y">>),
          Message("application", "pdf", NoCharset, <<"x">>),
          Message("multipart", "mixed", NoCharset, <<"x">>)}
    \cup {Multipart("mixed", ps) : ps \in SeqsUpTo(ReaderParts, MaxParts)}

InitReader ==
    /\ msg \in ReaderMessages
    /\ pc = "Parse"
    /\ idx = 1
    /\ urls = <<>>
    /\ bodyBuilder = <<>>
    /\ result = NoResult
    /\ mbox = <<>>
    /\ mpos = 1
    /\ results = <<>>
    /\ warnings = <<>>
    /\ mainPc = "Idle"
    /\ ConfigIdle
    /\ AnalyzeIdle
    /\ ConvertIdle
    /\ partWarnings = 0
    /\ stuckAt \in IF msg.major = "multipart" /\ msg.boundary # ""
                   THEN 0..(Len(msg.parts) + 1) ELSE {0}

\* mr.NextPart() reports the error of the reader: a warning, and the loop
\* goes on with the next call
NextPartReadError ==
    /\ pc = "NextPart"
    /\ idx = stuckAt
    /\ partWarnings' = (partWarnings + 1) % 2
    /\ UNCHANGED stuckAt
    /\ UNCHANGED parseVars
    /\ UNCHANGED mainVars
    /\ UNCHANGED cfgVars
    /\ UNCHANGED <<anVars, convVars>>

NextReader == Next \/ NextPartReadError

\* the goroutine that runs Parse keeps running
SpecReader == InitReader /\ [][NextReader]_vars /\ WF_vars(NextReader)

\* the steps of Parse compute the function Parse
StepsAgree == pc = "Done" => result = Parse(msg)

(***************************************************************************)
(* main: the loop over the messages of an mbox file.                       *)
(***************************************************************************)
wID2 == <<LT, "m", "2", "@", "x", GT>>
wID3 == <<LT, "m", "3", "@", "x", GT>>
wID4 == <<LT, "m", "4", "@", "x", GT>>

Item(raw, analyzeErr) ==
    [raw |-> raw, nextErr |-> FALSE, analyzeErr |-> analyzeErr]

\* what the mbox reader can deliver: messages that parse and are analyzed,
\* a message the analysis fails on, messages Parse fails on, and an error
\* of NextMessage other than io.EOF
MainItems ==
    {Item(Message("text", "plain", NoCharset, wUrlA), FALSE),
     Item([Message("text", "html", NoCharset, <<"x">>)
              EXCEPT !.messageID = wID2], FALSE),
     Item([Multipart("mixed", <<Part("text", "plain", NoCharset, wUrlB)>>)
              EXCEPT !.messageID = wID3], FALSE),
     Item([Message("text", "plain", NoCharset, wUrlB)
              EXCEPT !.messageID = wID4], TRUE),
     Item([Message("text", "plain", NoCharset, wUrlB)
              EXCEPT !.messageID = wID4, !.readErr = TRUE], FALSE),
     Item([Message("text", "html", NoCharset, wUrlB)
              EXCEPT !.messageID = wID2, !.bodyErr = TRUE], FALSE),
     [Item(Message("text", "plain", NoCharset, <<>>), FALSE)
         EXCEPT !.nextErr = TRUE]}

InitMain ==
    /\ msg = Nil
    /\ pc = "Idle"
    /\ idx = 1
    /\ urls = <<>>
    /\ bodyBuilder = <<>>
    /\ result = NoResult
    /\ mbox \in SeqsUpTo(MainItems, MaxMsgs)
    /\ mpos = 1
    /\ results = <<>>
    /\ warnings = <<>>
    /\ mainPc = "Loop"
    /\ ConfigIdle
    /\ ReaderSound
    /\ AnalyzeIdle
    /\ ConvertIdle

\* mboxReader.NextMessage() reports io.EOF: break, and the output
MainEOF ==
    /\ mainPc = "Loop"
    /\ mpos > Len(mbox)
    /\ mainPc' = "Done"
    /\ UNCHANGED <<mbox, mpos, results, warnings>>
    /\ UNCHANGED parseVars
    /\ UNCHANGED cfgVars
    /\ UNCHANGED extVars

\* NextMessage reports another error: warning, continue
MainReadWarning ==
    /\ mainPc = "Loop"
    /\ mpos <= Len(mbox)
    /\ mbox[mpos].nextErr
    /\ warnings' = Append(warnings, mpos)
    /\ mpos' = mpos + 1
    /\ UNCHANGED <<mbox, results, mainPc>>
    /\ UNCHANGED parseVars
    /\ UNCHANGED cfgVars
    /\ UNCHANGED extVars

\* a variant in which a message Parse fails on ends the loop
MainParseFailsAborts ==
    /\ mainPc = "Loop"
    /\ mpos <= Len(mbox)
    /\ ~mbox[mpos].nextErr
    /\ Parse(mbox[mpos].raw).err # Nil
    /\ msg' = mbox[mpos].raw
    /\ result' = Parse(mbox[mpos].raw)
    /\ warnings' = Append(warnings, mpos)
    /\ mainPc' = "Done"
    /\ UNCHANGED <<mbox, mpos, results>>
    /\ UNCHANGED <<pc, idx, urls, bodyBuilder>>
    /\ UNCHANGED cfgVars
    /\ UNCHANGED extVars

\* email.Parse fails: warning, continue
MainParseFails ==
    /\ mainPc = "Loop"
    /\ mpos <= Len(mbox)
    /\ ~mbox[mpos].nextErr
    /\ Parse(mbox[mpos].raw).err # Nil
    /\ msg' = mbox[mpos].raw
    /\ result' = Parse(mbox[mpos].raw)
    /\ warnings' = Append(warnings, mpos)
    /\ mpos' = mpos + 1
    /\ UNCHANGED <<mbox, results, mainPc>>
    /\ UNCHANGED <<pc, idx, urls, bodyBuilder>>
    /\ UNCHANGED cfgVars
    /\ UNCHANGED extVars

\* emailAnalyzer.Analyze fails: warning, continue
MainAnalyzeFails ==
    /\ mainPc = "Loop"
    /\ mpos <= Len(mbox)
    /\ ~mbox[mpos].nextErr
    /\ Parse(mbox[mpos].raw).err = Nil
    /\ mbox[mpos].analyzeErr
    /\ msg' = mbox[mpos].raw
    /\ result' = Parse(mbox[mpos].raw)
    /\ warnings' = Append(warnings, mpos)
    /\ mpos' = mpos + 1
    /\ UNCHANGED <<mbox, results, mainPc>>
    /\ UNCHANGED <<pc, idx, urls, bodyBuilder>>
    /\ UNCHANGED cfgVars
    /\ UNCHANGED extVars

AnalysisResult(parsedEmail) ==
    [MessageID |-> parsedEmail.MessageID, Judgment |-> "judgment"]

\* the message is parsed and analyzed: its record is appended
MainAppend ==
    /\ mainPc = "Loop"
    /\ mpos <= Len(mbox)
    /\ ~mbox[mpos].nextErr
    /\ Parse(mbox[mpos].raw).err = Nil
    /\ ~mbox[mpos].analyzeErr
    /\ msg' = mbox[mpos].raw
    /\ result' = Parse(mbox[mpos].raw)
    /\ results' = Append(results,
                         AnalysisResult(Parse(mbox[mpos].raw).email[1]))
    /\ mpos' = mpos + 1
    /\ UNCHANGED <<mbox, warnings, mainPc>>
    /\ UNCHANGED <<pc, idx, urls, bodyBuilder>>
    /\ UNCHANGED cfgVars
    /\ UNCHANGED extVars

NextMain ==
    \/ MainEOF
    \/ MainReadWarning
    \/ MainParseFails
    \/ MainAnalyzeFails
    \/ MainAppend

SpecMain == InitMain /\ [][NextMain]_vars

(***************************************************************************)
(* config.Load: the configuration file, then the environment, then the     *)
(* default of the model name.  A value that may be absent is <<>> when it  *)
(* is absent and <<v>> when it is v (os.LookupEnv, a key of the JSON       *)
(* object, the *Config Load returns).                                      *)
(***************************************************************************)
Fields == {"OpenAIAPIKey", "OpenAIBaseURL", "ModelName"}

\* the json tags of Config
JSONKey(f) ==
    CASE f = "OpenAIAPIKey" -> "openai_api_key"
      [] f = "OpenAIBaseURL" -> "openai_base_url"
      [] f = "ModelName" -> "model_name"

\* the envconfig tags of Config
EnvKey(f) ==
    CASE f = "OpenAIAPIKey" -> "OPENAI_API_KEY"
      [] f = "OpenAIBaseURL" -> "OPENAI_BASE_URL"
      [] f = "ModelName" -> "MODEL_NAME"

JSONKeys == {JSONKey(f) : f \in Fields}

\* the names of the environment the model varies
EnvNames ==
    {"OPENAI_API_KEY", "OPENAI_BASE_URL", "OPENAI_API_BASE_URL", "MODEL_NAME"}

\* var cfg Config
ZeroConfig == [f \in Fields |-> ""]

DefaultModelName == "gpt-4-turbo"

\* the environments: every name is unset, set to the empty string, or set
\* to a value
Environments == [EnvNames -> {<<>>, <<"">>, <<"env-value">>}]

\* the JSON objects of the file: every key is absent or has a value, the
\* model name also the empty string
JSONObjects ==
    {o \in [JSONKeys -> {<<>>, <<"">>, <<"file-value">>}] :
        /\ o["openai_api_key"] # <<"">>
        /\ o["openai_base_url"] # <<"">>}

File(exists, readable, valid, json) ==
    [exists |-> exists, readable |-> readable, valid |-> valid, json |-> json]

NoJSON == [k \in JSONKeys |-> <<>>]

\* the files at the path: none, one that cannot be opened, one that is not
\* a JSON object with string values, and the JSON objects
ConfigFiles ==
    {File(FALSE, FALSE, FALSE, NoJSON), File(TRUE, FALSE, FALSE, NoJSON),
     File(TRUE, TRUE, FALSE, NoJSON)}
    \cup {File(TRUE, TRUE, TRUE, o) : o \in JSONObjects}

\* json.NewDecoder(file).Decode(&cfg): the keys of the object are stored
Decode(c, json) ==
    [f \in Fields |->
        IF json[JSONKey(f)] # <<>> THEN json[JSONKey(f)][1] ELSE c[f]]

\* a variant that stores a variable only in a field that is still empty
ProcessFillEmpty(c, env) ==
    [f \in Fields |->
        IF env[EnvKey(f)] # <<>> /\ c[f] = "" THEN env[EnvKey(f)][1]
        ELSE c[f]]

\* envconfig.Process("", &cfg): a variable that is set, also to the empty
\* string, is stored in its field; the field of an unset variable is left
Process(c, env) ==
    [f \in Fields |->
        IF env[EnvKey(f)] # <<>> THEN env[EnvKey(f)][1] ELSE c[f]]

\* the default of ModelName
WithDefault(c) ==
    IF c["ModelName"] = "" THEN [c EXCEPT !["ModelName"] = DefaultModelName]
    ELSE c

LoadFailure(why) == [cfg |-> <<>>, err |-> why]

InitConfig ==
    /\ msg = Nil
    /\ pc = "Idle"
    /\ idx = 1
    /\ urls = <<>>
    /\ bodyBuilder = <<>>
    /\ result = NoResult
    /\ mbox = <<>>
    /\ mpos = 1
    /\ results = <<>>
    /\ warnings = <<>>
    /\ mainPc = "Idle"
    /\ environ \in Environments
    /\ \/ path = "" /\ configFile = File(FALSE, FALSE, FALSE, NoJSON)
       \/ path = "config.json" /\ configFile \in ConfigFiles
    /\ ReaderSound
    /\ AnalyzeIdle
    /\ ConvertIdle
    /\ cfg = ZeroConfig
    /\ loadPc = "Open"
    /\ loadResult = [cfg |-> <<>>, err |-> Nil]

\* path == "": no file is opened
LoadNoPath ==
    /\ loadPc = "Open"
    /\ path = ""
    /\ loadPc' = "Env"
    /\ UNCHANGED <<environ, path, configFile, cfg, loadResult>>
    /\ UNCHANGED parseVars
    /\ UNCHANGED mainVars
    /\ UNCHANGED extVars

\* os.Open fails and os.IsNotExist(err): ignored
LoadFileNotExist ==
    /\ loadPc = "Open"
    /\ path # ""
    /\ ~configFile.exists
    /\ loadPc' = "Env"
    /\ UNCHANGED <<environ, path, configFile, cfg, loadResult>>
    /\ UNCHANGED parseVars
    /\ UNCHANGED mainVars
    /\ UNCHANGED extVars

\* os.Open fails otherwise: return nil, err
LoadOpenFails ==
    /\ loadPc = "Open"
    /\ path # ""
    /\ configFile.exists /\ ~configFile.readable
    /\ loadResult' = LoadFailure("open")
    /\ loadPc' = "Done"
    /\ UNCHANGED <<environ, path, configFile, cfg>>
    /\ UNCHANGED parseVars
    /\ UNCHANGED mainVars
    /\ UNCHANGED extVars

\* Decode fails: return nil, err
LoadDecodeFails ==
    /\ loadPc = "Open"
    /\ path # ""
    /\ configFile.exists /\ configFile.readable /\ ~configFile.valid
    /\ loadResult' = LoadFailure("decode")
    /\ loadPc' = "Done"
    /\ UNCHANGED <<environ, path, configFile, cfg>>
    /\ UNCHANGED parseVars
    /\ UNCHANGED mainVars
    /\ UNCHANGED extVars

\* the file is decoded into cfg
LoadDecode ==
    /\ loadPc = "Open"
    /\ path # ""
    /\ configFile.exists /\ configFile.readable /\ configFile.valid
    /\ cfg' = Decode(cfg, configFile.json)
    /\ loadPc' = "Env"
    /\ UNCHANGED <<environ, path, configFile, loadResult>>
    /\ UNCHANGED parseVars
    /\ UNCHANGED mainVars
    /\ UNCHANGED extVars

\* envconfig.Process; no field of Config has a type or a tag it fails on
LoadProcessEnv ==
    /\ loadPc = "Env"
    /\ cfg' = Process(cfg, environ)
    /\ loadPc' = "Default"
    /\ UNCHANGED <<environ, path, configFile, loadResult>>
    /\ UNCHANGED parseVars
    /\ UNCHANGED mainVars
    /\ UNCHANGED extVars

\* the default of ModelName, and return &cfg, nil
LoadReturn ==
    /\ loadPc = "Default"
    /\ cfg' = WithDefault(cfg)
    /\ loadResult' = [cfg |-> <<WithDefault(cfg)>>, err |-> Nil]
    /\ loadPc' = "Done"
    /\ UNCHANGED <<environ, path, configFile>>
    /\ UNCHANGED parseVars
    /\ UNCHANGED mainVars
    /\ UNCHANGED extVars

NextConfig ==
    \/ LoadNoPath
    \/ LoadFileNotExist
    \/ LoadOpenFails
    \/ LoadDecodeFails
    \/ LoadDecode
    \/ LoadProcessEnv
    \/ LoadReturn

SpecConfig == InitConfig /\ [][NextConfig]_vars

(***************************************************************************)
(* Concurrent invocations of Parse.  Everything Parse and                  *)
(* extractBodyAndURLs work on is local to the call: entity, bodyBuilder,   *)
(* urls, the two compiled patterns, the decoder.  In this specification    *)
(* msg, pc, idx, urls, bodyBuilder and result hold one value per           *)
(* invocation.                                                             *)
(***************************************************************************)
Procs == 1..MaxProcs

\* the locals of one invocation
Local(p) ==
    [msg |-> msg[p], pc |-> pc[p], idx |-> idx[p], urls |-> urls[p],
     bodyBuilder |-> bodyBuilder[p], result |-> result[p]]

\* one step of Parse on its locals: the steps of the specification of a
\* single call
ParseStep(l) ==
    LET ct == TopType(l.msg)
        acc == [urls |-> l.urls, body |-> l.bodyBuilder]
    IN  IF l.pc = "Parse"
        THEN IF l.msg.readErr
             THEN [l EXCEPT !.result = Failure("failed to read message entity"),
                            !.pc = "Done"]
             ELSE IF ct.major = "multipart"
             THEN IF ct.boundary = ""
                  THEN [l EXCEPT !.bodyBuilder = l.bodyBuilder \o l.msg.body,
                                 !.pc = "Dedup"]
                  ELSE [l EXCEPT !.idx = 1, !.pc = "NextPart"]
             ELSE IF IsTextLeaf(ct.major, ct.minor)
             THEN IF l.msg.bodyErr
                  THEN [l EXCEPT !.result = Failure("read body"),
                                 !.pc = "Done"]
                  ELSE LET n == SingleStep(acc,
                                    [l.msg EXCEPT !.charset = ct.charset,
                                                  !.minor = ct.minor])
                       IN  [l EXCEPT !.urls = n.urls, !.bodyBuilder = n.body,
                                     !.pc = "Dedup"]
             ELSE [l EXCEPT !.pc = "Dedup"]
        ELSE IF l.pc = "NextPart"
        THEN IF l.idx > Len(l.msg.parts)
             THEN [l EXCEPT !.pc = "Dedup"]
             ELSE LET n == PartStep(acc, l.msg.parts[l.idx])
                  IN  [l EXCEPT !.urls = n.urls, !.bodyBuilder = n.body,
                                !.idx = l.idx + 1]
        ELSE IF l.pc = "Dedup"
        THEN [l EXCEPT !.result = Finish(l.msg, acc), !.pc = "Done"]
        ELSE l

\* the messages of the concurrent invocations
ConcMessages ==
    {Message("text", "plain", NoCharset, wUrlA \o <<".">>),
     Message("text", "html", lShiftJISUpper,
             <<HiByte, "<", "a", " ", "h", "r", "e", "f", "=", DQ>> \o wUrlB
             \o <<DQ, ">">>),
     Multipart("mixed", <<Part("text", "plain", NoCharset, wUrlB),
                          Part("text", "html", NoCharset, <<"x", SP>>
                                                          \o wUrlA)>>),
     Multipart("mixed", <<Part("text", "plain", lLatin1, <<"y", HiByte>>),
                          [Part("text", "plain", NoCharset, wUrlA)
                              EXCEPT !.ctErr = TRUE],
                          Part("text", "plain", NoCharset, wUrlA)>>),
     Message("multipart", "mixed", NoCharset, wUrlA),
     Message("application", "pdf", NoCharset, wUrlA),
     [Message("text", "plain", NoCharset, wUrlA) EXCEPT !.readErr = TRUE],
     [Message("text", "html", NoCharset, wUrlA) EXCEPT !.bodyErr = TRUE]}

InitConc ==
    /\ msg \in [Procs -> ConcMessages]
    /\ pc = [p \in Procs |-> "Parse"]
    /\ idx = [p \in Procs |-> 1]
    /\ urls = [p \in Procs |-> <<>>]
    /\ bodyBuilder = [p \in Procs |-> <<>>]
    /\ result = [p \in Procs |-> NoResult]
    /\ mbox = <<>>
    /\ mpos = 1
    /\ results = <<>>
    /\ warnings = <<>>
    /\ mainPc = "Idle"
    /\ ConfigIdle
    /\ ReaderSound
    /\ AnalyzeIdle
    /\ ConvertIdle

\* a variant in which urls is one accumulator of the package, kept in the
\* slot of the first invocation
ConcStepSharedUrls(p) ==
    /\ pc[p] # "Done"
    /\ \E n \in {ParseStep([Local(p) EXCEPT !.urls = urls[1]])} :
           /\ pc' = [pc EXCEPT ![p] = n.pc]
           /\ idx' = [idx EXCEPT ![p] = n.idx]
           /\ urls' = [urls EXCEPT ![1] = n.urls]
           /\ bodyBuilder' = [bodyBuilder EXCEPT ![p] = n.bodyBuilder]
           /\ result' = [result EXCEPT ![p] = n.result]
    /\ UNCHANGED msg
    /\ UNCHANGED mainVars
    /\ UNCHANGED cfgVars
    /\ UNCHANGED extVars

\* invocation p takes its next step; it reads and writes its own locals
ConcStep(p) ==
    /\ pc[p] # "Done"
    /\ \E n \in {ParseStep(Local(p))} :
           /\ pc' = [pc EXCEPT ![p] = n.pc]
           /\ idx' = [idx EXCEPT ![p] = n.idx]
           /\ urls' = [urls EXCEPT ![p] = n.urls]
           /\ bodyBuilder' = [bodyBuilder EXCEPT ![p] = n.bodyBuilder]
           /\ result' = [result EXCEPT ![p] = n.result]
    /\ UNCHANGED msg
    /\ UNCHANGED mainVars
    /\ UNCHANGED cfgVars
    /\ UNCHANGED extVars

NextConc == \E p \in Procs : ConcStep(p)

SpecConc == InitConc /\ [][NextConc]_vars

\* in the specification of a single call every step is a step of ParseStep
StepsAreParseSteps ==
    [][\E n \in {ParseStep([msg |-> msg, pc |-> pc, idx |-> idx,
                             urls |-> urls, bodyBuilder |-> bodyBuilder,
                             result |-> result])} :
           <<msg, pc, idx, urls, bodyBuilder, result>>'
           = <<n.msg, n.pc, n.idx, n.urls, n.bodyBuilder, n.result>>]_vars

(***************************************************************************)
(* Properties of Parse.                                                    *)
(***************************************************************************)
Range(f) == {f[k] : k \in DOMAIN f}

Returned == pc = "Done" /\ result.err = Nil

IsMultipartWithBoundary(m) ==
    ~m.ctErr /\ m.major = "multipart" /\ m.boundary # ""

IsNested(part) ==
    /\ ~part.nextErr /\ ~part.ctErr /\ ~part.readErr
    /\ part.major = "multipart"
    /\ Len(part.children) = 2
    /\ part.children[1].minor = "plain"
    /\ part.children[2].minor = "html"

\* the text and the URLs a leaf holds, had it been the whole message
LeafText(leaf) == TrimSpace(LeafHarvest(leaf.content, leaf.minor).text)
LeafURLs(leaf) == Range(TrimAndDedup(LeafHarvest(leaf.content, leaf.minor).urls))

\* C1: for a multipart message that holds a nested multipart child with a
\* text/plain and a text/html leaf, the body Parse returns contains the text
\* of both nested leaves and the URL list contains the URLs of both.
C1_NestedLeavesReachResult ==
    (Returned /\ IsMultipartWithBoundary(msg)) =>
        \A i \in 1..Len(msg.parts) :
            IsNested(msg.parts[i]) =>
                \A k \in 1..2 :
                    LET leaf == msg.parts[i].children[k]
                    IN  /\ Contains(result.email[1].Body, LeafText(leaf))
                        /\ LeafURLs(leaf) \subseteq Range(result.email[1].URLs)

(***************************************************************************)
(* Properties of the loop of main.                                         *)
(***************************************************************************)
\* the items of the container that are read, parsed and analyzed
Kept ==
    {i \in 1..Len(mbox) :
        /\ ~mbox[i].nextErr
        /\ ~mbox[i].raw.readErr
        /\ ~BodyReadFails(mbox[i].raw)
        /\ ~mbox[i].analyzeErr}

Rank(i) == Cardinality({j \in Kept : j <= i})

CorrectlyDelimited == \A i \in 1..Len(mbox) : ~mbox[i].nextErr

\* C2: in container mode the run produces one record for every message that
\* is parsed and analyzed, in the order of the container; a message that
\* cannot be parsed is dropped with a warning of its own and the messages
\* before and after it still get their records.
C2_ContainerRecordsInOrder ==
    (mainPc = "Done" /\ CorrectlyDelimited) =>
        /\ Len(results) = Cardinality(Kept)
        /\ \A i \in Kept :
               results[Rank(i)].MessageID = TrimID(mbox[i].raw.messageID)
        /\ Range(warnings) = (1..Len(mbox)) \ Kept
        /\ Len(warnings) = Len(mbox) - Cardinality(Kept)

\* three messages, the second of which Parse fails on: records for 1 and 3
C2_Witness ==
    /\ mainPc = "Done"
    /\ CorrectlyDelimited
    /\ Len(mbox) = 3
    /\ Kept = {1, 3}
    /\ mbox[2].raw.readErr
    /\ mbox[1].raw.messageID # mbox[3].raw.messageID
    /\ Len(results) = 2
    /\ warnings = <<2>>

\* C3: the URL list Parse returns holds no string twice.
C3_NoDuplicateURLs ==
    Returned =>
        \A i, j \in 1..Len(result.email[1].URLs) :
            result.email[1].URLs[i] = result.email[1].URLs[j] => i = j

\* a multipart message in which the href pass of one part and the free-text
\* pass of another found the same URL, once with trailing punctuation
C3_Witness ==
    /\ Returned
    /\ IsMultipartWithBoundary(msg)
    /\ Len(msg.parts) = 2
    /\ \E i, j \in 1..Len(urls) :
           /\ urls[i] # urls[j]
           /\ TrimRight(urls[i]) = TrimRight(urls[j])
           /\ urls[i] \in Range(HrefPass(msg.parts[1].content))
           /\ urls[j] \in Range(FreePass(msg.parts[2].content))
    /\ Len(result.email[1].URLs) = 1

(***************************************************************************)
(* The occurrences of URLs in a message: which leaf, which pass, where.    *)
(***************************************************************************)
IsHarvestedPart(part) ==
    /\ ~part.nextErr /\ ~part.ctErr /\ ~part.readErr
    /\ IsTextLeaf(part.major, part.minor)

\* the text leaves of a message in declaration order, charset-decoded
Harvested(m) ==
    LET ct == TopType(m)
        ps == SelectSeq(m.parts, IsHarvestedPart)
    IN  IF m.readErr THEN <<>>
        ELSE IF ct.major = "multipart"
        THEN IF ct.boundary = "" THEN <<>>
             ELSE [k \in 1..Len(ps) |->
                      [text |-> DecodeIfSpecified(ps[k].content, ps[k].charset,
                                                  ps[k].decodeFails),
                       minor |-> ps[k].minor]]
        ELSE IF IsTextLeaf(ct.major, ct.minor) /\ ~m.bodyErr
        THEN <<[text |-> DecodeIfSpecified(m.body, ct.charset, m.decodeFails),
                minor |-> ct.minor]>>
        ELSE <<>>

\* for every position of the tag-stripped text, the position of the leaf's
\* text it comes from (the first position of the tag, for the space that
\* replaces a tag)
RECURSIVE OriginFrom(_, _)
OriginFrom(t, i) ==
    LET starts == {j \in i..Len(t) : TagEnd(t, j) > 0}
    IN  IF starts = {} THEN [k \in 1..(Len(t) - i + 1) |-> i + k - 1]
        ELSE [k \in 1..(Min(starts) - i) |-> i + k - 1] \o <<Min(starts)>>
             \o OriginFrom(t, TagEnd(t, Min(starts)) + 1)

Origin(t, minor) ==
    IF minor = "html" THEN OriginFrom(t, 1) ELSE [k \in 1..Len(t) |-> k]

\* pass 1 is the href pass, pass 2 the free-text pass; pos is the position
\* in the text the pass scans, doc the position in the text of the leaf
OccurrencesIn(leaf, k) ==
    LET bt == BodyTextOf(leaf.text, leaf.minor)
        org == Origin(leaf.text, leaf.minor)
    IN  {[url |-> TrimRight(Slice(leaf.text, h.from, h.to)), part |-> k,
          pass |-> 1, pos |-> h.from, doc |-> h.from] :
            h \in Range(HrefFrom(leaf.text, 1))}
        \cup
        {[url |-> TrimRight(Slice(bt, f.from, f.to)), part |-> k,
          pass |-> 2, pos |-> f.from, doc |-> org[f.from]] :
            f \in Range(UrlFrom(bt, 1))}

Occurrences(m) ==
    UNION {OccurrencesIn(Harvested(m)[k], k) : k \in 1..Len(Harvested(m))}

\* a is harvested before b
HarvestBefore(a, b) ==
    \/ a.part < b.part
    \/ a.part = b.part /\ a.pass < b.pass
    \/ a.part = b.part /\ a.pass = b.pass /\ a.pos < b.pos

\* a lies before b in the document
DocBefore(a, b) ==
    \/ a.part < b.part
    \/ a.part = b.part /\ a.doc < b.doc

\* C4 as amended: the URL list is ordered by first harvest: parts in the
\* order of declaration, within a part the matches of the href pass from
\* left to right, then the matches of the free-text pass from left to
\* right; the list holds u before v exactly when the first harvest of u
\* precedes the first harvest of v.
C4_HarvestOrder ==
    Returned =>
        LET occ == Occurrences(msg)
            L == result.email[1].URLs
        IN  /\ Range(L) = {o.url : o \in occ}
            /\ \A i, j \in 1..Len(L) :
                   i < j =>
                       \E a \in occ :
                           /\ a.url = L[i]
                           /\ \A b \in occ : b.url = L[j] => HarvestBefore(a, b)

\* a leaf in which a URL of the free-text pass stands before the first
\* occurrence of a URL the href pass finds, and the list holds the latter
\* first
C4_Witness ==
    /\ Returned
    /\ Len(result.email[1].URLs) >= 2
    /\ \E a, b \in Occurrences(msg) :
           /\ a.part = b.part /\ a.pass = 2 /\ b.pass = 1 /\ a.doc < b.doc
           /\ a.url = result.email[1].URLs[2]
           /\ b.url = result.email[1].URLs[1]
           /\ \A c \in Occurrences(msg) : c.url = b.url => DocBefore(a, c)

\* C4 as claimed: the URL list is ordered by first occurrence in the
\* document (parts in declaration order, text from left to right inside a
\* part), also between an href value and a free-text URL of one part.
C4_DocumentOrder ==
    Returned =>
        LET occ == Occurrences(msg)
            L == result.email[1].URLs
        IN  \A i, j \in 1..Len(L) :
                (\E a \in occ :
                     /\ a.url = L[i]
                     /\ \A b \in occ : b.url = L[j] => DocBefore(a, b))
                => i < j

(***************************************************************************)
(* Charset normalisation.                                                  *)
(***************************************************************************)
\* the labels of the model by what the decoder table holds
Utf8Labels == {lUtf8, lUTF8Upper, lUtf8Mixed}
IsoLabels == {lIso2022jp, lIso2022jpUpper, lIso2022jpMixed}
SjisLabels == {lShiftJisU, lShiftJisH, lShiftJISUpper, lShiftJisHUpper}
EucLabels == {lEucJpH, lEucJpU, lEUCJPUpper, lEucJpUMixed}
TableLabels == IsoLabels \cup SjisLabels \cup EucLabels
UnknownLabels == {lLatin1, lUtf8NoHyphen}

\* the label is not in the table, or its decoder fails
FallsBack(cs, fails) ==
    cs \in UnknownLabels \/ (cs \in TableLabels /\ fails)

EndsWith(t, w) ==
    Len(w) <= Len(t) /\ SubSeq(t, Len(t) - Len(w) + 1, Len(t)) = w

IsSingleText(m) ==
    /\ ~m.readErr /\ ~m.ctErr /\ ~m.bodyErr
    /\ IsTextLeaf(m.major, m.minor)

\* the part the loop has just handled
LastPart == msg.parts[idx - 1]

InLoopAfterPart ==
    /\ pc = "NextPart" /\ idx > 1
    /\ IsHarvestedPart(LastPart)

C6_Utf8OrEmptyUnchanged ==
    /\ (pc \in {"Dedup", "Done"} /\ IsSingleText(msg)
        /\ msg.charset \in Utf8Labels \cup {NoCharset})
       => bodyBuilder = BodyTextOf(msg.body, msg.minor)
    /\ (InLoopAfterPart /\ LastPart.charset \in Utf8Labels \cup {NoCharset})
       => EndsWith(bodyBuilder,
                   BodyTextOf(LastPart.content, LastPart.minor) \o <<NL>>)

\* a body that declares UTF-8 in upper or mixed case and holds a byte the
\* Japanese decoders would change
C6_Witness ==
    /\ Returned
    /\ IsSingleText(msg)
    /\ msg.charset \in {lUTF8Upper, lUtf8Mixed}
    /\ HiByte \in Range(msg.body)
    /\ HiByte \in Range(result.email[1].Body)

(***************************************************************************)
(* The URL list.                                                           *)
(***************************************************************************)
EndsInPunct(u) == Len(u) > 0 /\ u[Len(u)] \in TrailPunct

wExamplePage == <<"h", "t", "t", "p", ":", "/", "/", "e", "x", "a", "m", "p",
    "l", "e", ".", "c", "o", "m", "/", "p", "a", "g", "e">>
wGoogle == <<"h", "t", "t", "p", ":", "/", "/", "g", "o", "o", "g", "l", "e",
    ".", "c", "o", "m">>
wExampleOrg == <<"h", "t", "t", "p", "s", ":", "/", "/", "e", "x", "a", "m",
    "p", "l", "e", ".", "o", "r", "g">>

\* C7: every URL of both passes is trimmed before the deduplication, so no
\* URL of the list ends with one of . ? ! , ; ) and the text of the trimming
\* test yields exactly http://example.com/page and http://google.com.
C7_NoTrailingPunctuation ==
    Returned =>
        /\ \A k \in 1..Len(result.email[1].URLs) :
               ~EndsInPunct(result.email[1].URLs[k])
        /\ (IsSingleText(msg) /\ msg.body = TrimTestBody
            /\ msg.charset = NoCharset)
           => result.email[1].URLs = <<wExamplePage, wGoogle>>

\* the href pass harvested a value that ends with punctuation
C7_Witness ==
    /\ Returned
    /\ IsSingleText(msg)
    /\ \E k \in 1..Len(urls) :
           /\ EndsInPunct(urls[k])
           /\ urls[k] \in Range(HrefPass(msg.body))
           /\ TrimRight(urls[k]) \in Range(result.email[1].URLs)

\* the quoted href values of a text: the characters between an opening quote
\* that follows href = and the next quote of the same kind, when they start
\* with http:// or https:// and go on after it
AttrValueAt(t, i) ==
    LET e == SkipWS(t, i + Len(wHref))
        q == SkipWS(t, e + 1)
        closing == {c \in (q + 1)..Len(t) : t[c] = t[q]}
    IN  IF /\ HasAt(t, i, wHref)
           /\ e <= Len(t) /\ t[e] = "="
           /\ q <= Len(t) /\ t[q] \in {DQ, SQ}
           /\ closing # {}
           /\ SchemeLen(t, q + 1) > 0
           /\ Min(closing) > q + 1 + SchemeLen(t, q + 1)
        THEN Slice(t, q + 1, Min(closing) - 1)
        ELSE <<>>

AttrValues(t) == {AttrValueAt(t, i) : i \in 1..Len(t)} \ {<<>>}

\* C8: for a text/html part every href attribute whose quoted value (double-
\* or single-quoted) starts with http:// or https:// contributes exactly
\* that value, trailing punctuation trimmed, to the URL list; the body of
\* the HTML test yields exactly https://example.org.
C8_HrefValuesHarvested ==
    (Returned /\ IsSingleText(msg) /\ msg.minor = "html"
     /\ msg.charset = NoCharset)
    => /\ \A v \in AttrValues(msg.body) :
              TrimRight(v) \in Range(result.email[1].URLs)
       /\ msg.body = HTMLTestBody => result.email[1].URLs = <<wExampleOrg>>

\* the URLs of a list as whitespace-separated text
RECURSIVE JoinFrom(_, _)
JoinFrom(L, i) ==
    IF i > Len(L) THEN <<>>
    ELSE IF i = Len(L) THEN L[i]
    ELSE L[i] \o <<SP>> \o JoinFrom(L, i + 1)

\* the harvesting steps on the list given as text
Reharvest(L) == TrimAndDedup(LeafHarvest(JoinFrom(L, 1), "plain").urls)

\* C9 as claimed: the URLs of the returned list, presented again as
\* whitespace-separated text to extraction, trim and dedup, yield the same
\* list.
C9_ReharvestSameList ==
    Returned => Reharvest(result.email[1].URLs) = result.email[1].URLs

\* the same for the messages that hold no single quote
C9_ReharvestDoubleQuoted ==
    (Returned /\ IsSingleText(msg) /\ SQ \notin Range(msg.body))
    => Reharvest(result.email[1].URLs) = result.email[1].URLs

\* C9 as amended: the trim and the deduplication, applied again to the
\* returned list, yield the same list.
C9_TrimDedupIdempotent ==
    Returned => TrimAndDedup(result.email[1].URLs) = result.email[1].URLs

\* the harvest found a URL more than once and with trailing punctuation,
\* and the list holds more than one URL
C9_Witness ==
    /\ Returned
    /\ Len(result.email[1].URLs) >= 2
    /\ Len(urls) > Len(result.email[1].URLs)
    /\ \E k \in 1..Len(urls) : EndsInPunct(urls[k])

\* C10: multipart/* without a boundary parameter: Parse returns no error,
\* the whole payload is the body, not charset-converted, and the URL list is
\* empty also when the payload holds URLs.
C10_NoBoundaryOpaque ==
    (pc = "Done" /\ ~msg.readErr /\ ~msg.ctErr /\ msg.major = "multipart"
     /\ msg.boundary = "")
    => /\ result.err = Nil
       /\ result.email[1].Body = TrimSpace(msg.body)
       /\ result.email[1].URLs = <<>>

\* a payload with a URL, and one with a legacy byte under a declared charset
C10_Witness ==
    /\ Returned
    /\ ~msg.ctErr /\ msg.major = "multipart" /\ msg.boundary = ""
    /\ msg.charset = lShiftJISUpper
    /\ HiByte \in Range(msg.body)
    /\ HiByte \in Range(result.email[1].Body)
    /\ FreePass(msg.body) # <<>>
    /\ result.email[1].URLs = <<>>

(***************************************************************************)
(* Multipart children.                                                     *)
(***************************************************************************)
WellFormedPart(part) == ~part.nextErr /\ ~part.ctErr /\ ~part.readErr

\* the message without the children the loop fails on
WithoutFailing(m) == [m EXCEPT !.parts = SelectSeq(m.parts, WellFormedPart)]

\* C11: in a multipart message a child the loop fails on (NextPart error,
\* unparseable Content-Type, unreadable content) does not make Parse fail
\* and adds nothing to body or URL list: the record is the one of the same
\* message without the failing children, so the well-formed siblings before
\* and after still contribute their text and URLs.
C11_FailingChildSkipped ==
    /\ (pc = "Done" /\ ~msg.readErr /\ IsMultipartWithBoundary(msg))
       => /\ result.err = Nil
          /\ result = Parse(WithoutFailing(msg))
    /\ (pc = "NextPart" /\ idx > 1 /\ ~WellFormedPart(LastPart))
       => LET before == PartsFrom(SubSeq(msg.parts, 1, idx - 2), 1, EmptyAcc)
          IN  urls = before.urls /\ bodyBuilder = before.body

\* a failing child between two well-formed text parts that both hold a URL
C11_Witness ==
    /\ Returned
    /\ IsMultipartWithBoundary(msg)
    /\ Len(msg.parts) = 3
    /\ ~WellFormedPart(msg.parts[2])
    /\ FreePass(msg.parts[2].content) # <<>>
    /\ result.email[1].URLs = <<wUrlA, wUrlB>>
    /\ result.email[1].Body = wUrlA \o <<".", NL>> \o wUrlB

\* a media type that is neither multipart/* nor text/plain nor text/html
IsOtherType(major, minor) ==
    major # "multipart" /\ ~(major = "text" /\ minor \in {"plain", "html"})

IsOtherPart(part) ==
    WellFormedPart(part) /\ IsOtherType(part.major, part.minor)

IsTextOrFailing(part) == ~IsOtherPart(part)

\* the message without its children of other media types
WithoutOther(m) == [m EXCEPT !.parts = SelectSeq(m.parts, IsTextOrFailing)]

\* C12: a part whose media type is neither text/plain nor text/html is
\* ignored: as the top-level entity it leaves body and URL list empty, as a
\* multipart child it adds nothing to urls or bodyBuilder, and the record
\* is the one of the same message without such children.
C12_OtherTypesIgnored ==
    /\ (pc = "Done" /\ ~msg.readErr /\ ~msg.ctErr
        /\ IsOtherType(msg.major, msg.minor))
       => /\ result.err = Nil
          /\ result.email[1].Body = <<>>
          /\ result.email[1].URLs = <<>>
    /\ (pc = "NextPart" /\ idx > 1 /\ IsOtherPart(LastPart))
       => LET before == PartsFrom(SubSeq(msg.parts, 1, idx - 2), 1, EmptyAcc)
          IN  urls = before.urls /\ bodyBuilder = before.body
    /\ (pc = "Done" /\ ~msg.readErr /\ IsMultipartWithBoundary(msg))
       => result = Parse(WithoutOther(msg))

\* a text/plain child with one URL followed by a text/calendar child with
\* another URL: only the first URL and the first text are returned
C12_Witness ==
    /\ Returned
    /\ IsMultipartWithBoundary(msg)
    /\ Len(msg.parts) = 2
    /\ IsHarvestedPart(msg.parts[1])
    /\ IsOtherPart(msg.parts[2])
    /\ msg.parts[2].major = "text"
    /\ FreePass(msg.parts[2].content) = <<wUrlB>>
    /\ result.email[1].URLs = <<wUrlA>>
    /\ ~Contains(result.email[1].Body, wUrlB)

\* the texts of a list joined by single line feeds
RECURSIVE JoinLines(_, _)
JoinLines(L, i) ==
    IF i > Len(L) THEN <<>>
    ELSE IF i = Len(L) THEN L[i]
    ELSE L[i] \o <<NL>> \o JoinLines(L, i + 1)

\* the texts of the text children of a multipart message, decoded and, for
\* HTML, tag-stripped, in declaration order
LeafTexts(m) ==
    [k \in 1..Len(Harvested(m)) |->
        BodyTextOf(Harvested(m)[k].text, Harvested(m)[k].minor)]

\* C13: the body of a multipart message is the texts of its text children
\* in declaration order, joined by single line feeds, with leading and
\* trailing whitespace trimmed once from the aggregate and not from each
\* part; the body neither starts nor ends with whitespace.
C13_MultipartBodyJoined ==
    (pc = "Done" /\ ~msg.readErr /\ IsMultipartWithBoundary(msg))
    => /\ result.err = Nil
       /\ result.email[1].Body = TrimSpace(JoinLines(LeafTexts(msg), 1))
       /\ result.email[1].Body # <<>>
          => /\ ~IsSpaceUnicode(result.email[1].Body[1])
             /\ ~IsSpaceUnicode(result.email[1].Body[Len(result.email[1].Body)])
       /\ msg = MultipartTestMessage
          => /\ SubSeq(result.email[1].Body, 1, Len(MultipartTestPlain) + 2)
                    = MultipartTestPlain \o <<NL, SP>>
             /\ EndsWith(result.email[1].Body, <<"h", "t", "m", "l">>)

\* two text children whose texts end and start with a space: the spaces
\* next to the line feed stay
C13_Witness ==
    /\ Returned
    /\ IsMultipartWithBoundary(msg)
    /\ Len(LeafTexts(msg)) = 2
    /\ result.email[1].Body = <<"x", SP, NL, SP, "y">>

(***************************************************************************)
(* The outcomes of Parse.                                                  *)
(***************************************************************************)
\* C14: when message.Read fails, Parse returns an error and no record; in
\* every outcome Parse returns either a record and no error, or no record
\* and an error.
C14_RecordOrError ==
    pc = "Done"
    => /\ msg.readErr => (result.email = NilEmail /\ result.err # Nil)
       /\ (result.email = NilEmail) <=> (result.err # Nil)

\* Parse has returned for a message that cannot be read as an entity
C14_Witness ==
    /\ pc = "Done"
    /\ msg.readErr
    /\ result = Failure("failed to read message entity")
    /\ urls = <<>> /\ bodyBuilder = <<>>

(***************************************************************************)
(* Validity of the text as UTF-8.  Of the characters of the model only the *)
(* raw byte 0xB1 is not valid UTF-8: it is a continuation byte without a   *)
(* leading byte.                                                           *)
(***************************************************************************)
ValidUTF8(t) == \A k \in 1..Len(t) : t[k] # HiByte

\* a decoder of the table ran on the bytes and reported no error
DecoderApplied(cs, fails) == cs \in TableLabels /\ ~fails

\* C15 as claimed: the body Parse returns is valid UTF-8 for every input.
C15_BodyAlwaysValidUTF8 ==
    Returned => ValidUTF8(result.email[1].Body)

\* C15 as amended: the text of a leaf is valid UTF-8 when a decoder of the
\* table was applied without error or when the bytes of the part were
\* valid UTF-8 already; the body is valid UTF-8 when this holds of every
\* text leaf.  (With an empty, utf-8 or unknown label, or a failing
\* decoder, the bytes are passed on unvalidated.)
C15_ValidWhenDecodedOrValidInput ==
    /\ (pc \in {"Dedup", "Done"} /\ IsSingleText(msg)
        /\ (DecoderApplied(msg.charset, msg.decodeFails)
            \/ ValidUTF8(msg.body)))
       => ValidUTF8(bodyBuilder)
    /\ (pc \in {"NextPart", "Dedup", "Done"} /\ IsMultipartWithBoundary(msg)
        /\ \A k \in 1..(idx - 1) :
               IsHarvestedPart(msg.parts[k])
               => \/ DecoderApplied(msg.parts[k].charset,
                                    msg.parts[k].decodeFails)
                  \/ ValidUTF8(msg.parts[k].content))
       => ValidUTF8(bodyBuilder)
    /\ (Returned /\ ValidUTF8(bodyBuilder))
       => ValidUTF8(result.email[1].Body)

\* a body with a byte that is not valid UTF-8, decoded by a decoder of the
\* table: the body returned is valid
C15_Witness ==
    /\ Returned
    /\ IsSingleText(msg)
    /\ DecoderApplied(msg.charset, msg.decodeFails)
    /\ ~ValidUTF8(msg.body)
    /\ result.email[1].Body # <<>>
    /\ ValidUTF8(result.email[1].Body)

\* C16: the href pass runs only for HTML: a text/plain part adds no URL to
\* the list other than those the free-text pass extracts from its text.
C16_PlainHrefAddsNothing ==
    (Returned /\ IsSingleText(msg) /\ msg.minor = "plain"
     /\ msg.charset = NoCharset)
    => result.email[1].URLs = TrimAndDedup(FreePass(msg.body))

(***************************************************************************)
(* Concurrency.                                                            *)
(***************************************************************************)
\* C17: concurrent invocations of Parse are independent: under every
\* interleaving of their steps each invocation returns what Parse returns
\* for its message alone, and before that its locals are those of a run
\* alone (the other invocations write none of them).
C17_ConcurrentIndependent ==
    \A p \in Procs :
        /\ pc[p] = "Done" => result[p] = Parse(msg[p])
        /\ pc[p] = "Parse"
           => (urls[p] = <<>> /\ bodyBuilder[p] = <<>>
               /\ result[p] = NoResult)
        /\ pc[p] = "NextPart"
           => LET a == PartsFrom(SubSeq(msg[p].parts, 1, idx[p] - 1), 1,
                                EmptyAcc)
              IN  urls[p] = a.urls /\ bodyBuilder[p] = a.body

\* two invocations on different multipart messages, both inside their
\* loops with URLs gathered, neither finished
C17_Witness ==
    /\ msg[1] # msg[2]
    /\ pc[1] = "NextPart" /\ pc[2] = "NextPart"
    /\ idx[1] > 1 /\ idx[2] > 1
    /\ urls[1] # <<>> /\ bodyBuilder[2] # <<>>
    /\ urls[1] # urls[2]

(***************************************************************************)
(* The decoder table.                                                      *)
(***************************************************************************)
\* what the decoder the table holds for label cs makes of the bytes b
TableDecoded(cs, b) ==
    IF cs \in IsoLabels THEN DecodeISO2022JP(b)
    ELSE IF cs \in SjisLabels THEN DecodeShiftJIS(b)
    ELSE DecodeEUCJP(b)

\* C18: the label is lower-cased before the lookup; iso-2022-jp selects
\* the ISO-2022-JP decoder, shift_jis and shift-jis the Shift_JIS decoder,
\* euc-jp and euc_jp the EUC-JP decoder, in every letter case; the output
\* of the decoder, when it reports no error, replaces the bytes of the
\* part.
C18_DecoderTable ==
    /\ \A cs \in IsoLabels : ToLower(cs) = lIso2022jp
    /\ \A cs \in SjisLabels : ToLower(cs) \in {lShiftJisU, lShiftJisH}
    /\ \A cs \in EucLabels : ToLower(cs) \in {lEucJpH, lEucJpU}
    /\ (pc \in {"Dedup", "Done"} /\ IsSingleText(msg)
        /\ DecoderApplied(msg.charset, msg.decodeFails))
       => bodyBuilder
          = BodyTextOf(TableDecoded(msg.charset, msg.body), msg.minor)
    /\ (InLoopAfterPart
        /\ DecoderApplied(LastPart.charset, LastPart.decodeFails))
       => EndsWith(bodyBuilder,
                   BodyTextOf(TableDecoded(LastPart.charset, LastPart.content),
                              LastPart.minor) \o <<NL>>)

\* a body labelled SHIFT-JIS or Shift_JIS whose byte 0xB1 is returned as
\* the half-width katakana U+FF71
C18_Witness ==
    /\ Returned
    /\ IsSingleText(msg)
    /\ msg.charset \in {lShiftJISUpper, lShiftJisHUpper}
    /\ ~msg.decodeFails
    /\ HiByte \in Range(msg.body)
    /\ "U+FF71" \in Range(result.email[1].Body)
    /\ HiByte \notin Range(result.email[1].Body)

(***************************************************************************)
(* The message identifier.                                                 *)
(***************************************************************************)
IDCutset == {LT, GT, SP}

\* id is h without a leading and a trailing run of characters of the
\* cutset, and no such character is left at either end of id
IsTrimmedOf(id, h) ==
    /\ id # <<>> => (id[1] \notin IDCutset /\ id[Len(id)] \notin IDCutset)
    /\ \E a, b \in 0..Len(h) :
           /\ a + b <= Len(h)
           /\ \A k \in 1..a : h[k] \in IDCutset
           /\ \A k \in (Len(h) - b + 1)..Len(h) : h[k] \in IDCutset
           /\ id = Slice(h, a + 1, Len(h) - b)

\* C19: the message identifier of the record is the Message-ID value
\* without the angle brackets and spaces that surround it: it neither
\* begins nor ends with an angle bracket or a space, and
\* <plain@example.com> gives plain@example.com.
C19_MessageIDTrimmed ==
    Returned
    => /\ IsTrimmedOf(result.email[1].MessageID, msg.messageID)
       /\ msg.messageID = <<LT>> \o wPlainID \o <<GT>>
          => result.email[1].MessageID = wPlainID

\* an identifier with more than one bracket and a space on either side and
\* a bracket inside
C19_Witness ==
    /\ Returned
    /\ msg.messageID = <<LT, LT, "a", LT, "b", GT, SP>>
    /\ result.email[1].MessageID = <<"a", LT, "b">>

(***************************************************************************)
(* The configuration.                                                      *)
(***************************************************************************)
FileLoaded ==
    /\ path # ""
    /\ configFile.exists /\ configFile.readable /\ configFile.valid

FileFails ==
    /\ path # ""
    /\ configFile.exists
    /\ ~(configFile.readable /\ configFile.valid)

EnvSets(f) == environ[EnvKey(f)] # <<>>

FileSets(f) == FileLoaded /\ configFile.json[JSONKey(f)] # <<>>

Loaded == loadPc = "Done" /\ loadResult.err = Nil

\* C20: config.Load resolves every setting with the priority environment,
\* file, default: a variable that is set gives the value of its field
\* whatever the file holds; the value of the file is kept when the
\* variable is not set; a file that does not exist is no error; the model
\* name is gpt-4-turbo when neither source gives one, and is never empty
\* after a successful Load.
C20_EnvOverFileOverDefault ==
    loadPc = "Done"
    => /\ FileFails <=> loadResult.err # Nil
       /\ (loadResult.cfg = <<>>) <=> (loadResult.err # Nil)
       /\ Loaded
          => LET c == loadResult.cfg[1]
             IN  /\ \A f \in Fields \ {"ModelName"} :
                        /\ EnvSets(f) => c[f] = environ[EnvKey(f)][1]
                        /\ (~EnvSets(f) /\ FileSets(f))
                           => c[f] = configFile.json[JSONKey(f)][1]
                        /\ (~EnvSets(f) /\ ~FileSets(f)) => c[f] = ""
                 /\ (EnvSets("ModelName")
                     /\ environ["MODEL_NAME"] # <<"">>)
                    => c["ModelName"] = environ["MODEL_NAME"][1]
                 /\ (~EnvSets("ModelName") /\ FileSets("ModelName")
                     /\ configFile.json["model_name"] # <<"">>)
                    => c["ModelName"] = configFile.json["model_name"][1]
                 /\ (~EnvSets("ModelName") /\ ~FileSets("ModelName"))
                    => c["ModelName"] = DefaultModelName
                 /\ environ["MODEL_NAME"] = <<"">>
                    => c["ModelName"] = DefaultModelName
                 /\ c["ModelName"] # ""

\* the file holds a key and a model name, the environment sets the key and
\* not the model name: the key of the environment and the model name of
\* the file are returned
C20_Witness ==
    /\ Loaded
    /\ FileSets("OpenAIAPIKey") /\ FileSets("ModelName")
    /\ ~FileSets("OpenAIBaseURL")
    /\ environ["OPENAI_API_KEY"] = <<"env-value">>
    /\ environ["MODEL_NAME"] = <<>>
    /\ environ["OPENAI_BASE_URL"] = <<>>
    /\ loadResult.cfg[1] = [OpenAIAPIKey |-> "env-value",
                            OpenAIBaseURL |-> "",
                            ModelName |-> "file-value"]

\* ---------------------------------------------------------------------
\* llm: OpenAIProvider.AnalyzeText, and analyzer: EmailAnalyzer.Analyze
\* ---------------------------------------------------------------------

\* a Judgment; ConfidenceScore is counted in tenths
Judgment(s, c, r, n) ==
    [IsSuspicious |-> s, Category |-> c, Reason |-> r, ConfidenceScore |-> n]

\* the zero value of Judgment
ZeroJudgment == Judgment(FALSE, "", "", 0)

\* the JSON values of a member of an object
JBool(b) == [type |-> "bool", b |-> b, s |-> "", n |-> 0]
JString(s) == [type |-> "string", b |-> FALSE, s |-> s, n |-> 0]
JNumber(n) == [type |-> "number", b |-> FALSE, s |-> "", n |-> n]
JNull == [type |-> "null", b |-> FALSE, s |-> "", n |-> 0]

\* the JSON text of a tool call's arguments: its syntax (an object, the
\* literal null, a string, a text that is no JSON, the empty text) and,
\* for an object, each member as <<>> (absent) or <<value>>
Args(syntax, s, c, r, n) ==
    [syntax |-> syntax, is_suspicious |-> s, category |-> c, reason |-> r,
     confidence_score |-> n]

ArgsEmpty == Args("empty", <<>>, <<>>, <<>>, <<>>)
ArgsNull == Args("null", <<>>, <<>>, <<>>, <<>>)
ArgsString == Args("string", <<>>, <<>>, <<>>, <<>>)
ArgsMalformed == Args("malformed", <<>>, <<>>, <<>>, <<>>)
ArgsPhishing ==
    Args("object", <<JBool(TRUE)>>, <<JString("Phishing")>>,
         <<JString("Contains a suspicious link.")>>, <<JNumber(9)>>)
ArgsSafe ==
    Args("object", <<JBool(FALSE)>>, <<JString("Safe")>>, <<JNull>>, <<>>)
ArgsBadType ==
    Args("object", <<JString("yes")>>, <<JString("Spam")>>, <<>>, <<>>)
ArgsObjectEmpty == Args("object", <<>>, <<>>, <<>>, <<>>)

\* a member decodes into a field of the type: absent and null leave the
\* field alone, another type is an error
MemberFits(m, type) == m = <<>> \/ m[1].type \in {type, "null"}

MemberIsSet(m) == m # <<>> /\ m[1].type # "null"

\* json.Unmarshal of an arguments text into a Judgment
UnmarshalJudgment(a) ==
    IF a.syntax = "null" THEN [ok |-> TRUE, judgment |-> ZeroJudgment]
    ELSE IF a.syntax # "object" THEN [ok |-> FALSE, judgment |-> ZeroJudgment]
    ELSE IF ~(/\ MemberFits(a.is_suspicious, "bool")
              /\ MemberFits(a.category, "string")
              /\ MemberFits(a.reason, "string")
              /\ MemberFits(a.confidence_score, "number"))
    THEN [ok |-> FALSE, judgment |-> ZeroJudgment]
    ELSE [ok |-> TRUE,
          judgment |->
              Judgment(
                  IF MemberIsSet(a.is_suspicious)
                  THEN a.is_suspicious[1].b ELSE FALSE,
                  IF MemberIsSet(a.category) THEN a.category[1].s ELSE "",
                  IF MemberIsSet(a.reason) THEN a.reason[1].s ELSE "",
                  IF MemberIsSet(a.confidence_score)
                  THEN a.confidence_score[1].n ELSE 0)]

\* the JSON text of a tool call, as a model writes it into the content:
\* its syntax and, for an object, the members name and arguments
ToolCallDoc(syntax, name, arguments) ==
    [syntax |-> syntax, name |-> name, arguments |-> arguments]

NoDoc == ToolCallDoc("empty", "", <<>>)

\* json.Unmarshal of a text into an LLMToolCallResponse; Arguments is a
\* json.RawMessage, the text of the member, empty when the member is absent
UnmarshalToolCall(d) ==
    IF d.syntax \notin {"object", "null"}
    THEN [ok |-> FALSE, Arguments |-> ArgsEmpty]
    ELSE [ok |-> TRUE,
          Arguments |-> IF d.syntax = "object" /\ d.arguments # <<>>
                        THEN d.arguments[1] ELSE ArgsEmpty]

\* the content of a message, a sequence of pieces: the two markers, white
\* space, a text that is no JSON, and the text of a JSON document
Open == [t |-> "[TOOL_REQUEST]", doc |-> NoDoc]
Close == [t |-> "[END_TOOL_REQUEST]", doc |-> NoDoc]
Space == [t |-> " ", doc |-> NoDoc]
Words == [t |-> "text", doc |-> NoDoc]
Doc(d) == [t |-> "json", doc |-> d]

\* the positions of re's match in content: the leftmost [TOOL_REQUEST]
\* that an [END_TOOL_REQUEST] follows, up to the last [END_TOOL_REQUEST]
ToolRequestMatch(c) ==
    LET opens == {i \in 1..Len(c) :
                     /\ c[i] = Open
                     /\ \E j \in (i + 1)..Len(c) : c[j] = Close}
    IN  IF opens = {} THEN <<>>
        ELSE LET i == CHOOSE k \in opens : \A o \in opens : k <= o
                 j == CHOOSE k \in (i + 1)..Len(c) :
                          /\ c[k] = Close
                          /\ \A l \in (k + 1)..Len(c) : c[l] # Close
             IN  <<i, j>>

\* matches[1], the text between the markers
Submatch(c) ==
    LET m == ToolRequestMatch(c) IN Slice(c, m[1] + 1, m[2] - 1)

RECURSIVE TrimLeftPieces(_)
TrimLeftPieces(c) ==
    IF c # <<>> /\ c[1] = Space THEN TrimLeftPieces(Tail(c)) ELSE c

RECURSIVE TrimRightPieces(_)
TrimRightPieces(c) ==
    IF c # <<>> /\ c[Len(c)] = Space
    THEN TrimRightPieces(SubSeq(c, 1, Len(c) - 1)) ELSE c

\* strings.TrimSpace of a content
TrimPieces(c) == TrimRightPieces(TrimLeftPieces(c))

\* json.Unmarshal of a content into an LLMToolCallResponse: the text is
\* one JSON document, white space around it allowed
UnmarshalContent(c) ==
    LET t == TrimPieces(c)
    IN  IF Len(t) = 1 /\ t[1].t = "json" THEN UnmarshalToolCall(t[1].doc)
        ELSE [ok |-> FALSE, Arguments |-> ArgsEmpty]

\* what AnalyzeText returns: a judgment and a nil error, or nil and an error
Judged(j) == [judgment |-> <<j>>, err |-> Nil]
Failed(e) == [judgment |-> <<>>, err |-> e]

\* an API response: whether the request and the read of the body go
\* through, whether the body decodes, and the decoded APIResponse
Response(transport, decodes, error, choices) ==
    [transport |-> transport, decodes |-> decodes, Error |-> error,
     Choices |-> choices]

Choice(c, toolCalls) == [Content |-> c, ToolCalls |-> toolCalls]

APIError == [Message |-> "Internal server error", Type |-> "", Code |-> ""]

\* apiResponse.Error != nil
HasAPIErrorNoChoices(r) == r.Error # <<>> /\ r.Choices = <<>>

HasAPIError(r) == r.Error # <<>>

\* the response has a first choice with content
HasContent(r) == Len(r.Choices) > 0 /\ r.Choices[1].Content # <<>>

\* the content of the first choice holds a marked tool request
HasToolRequest(r) ==
    HasContent(r) /\ ToolRequestMatch(r.Choices[1].Content) # <<>>

\* the whole content of the first choice decodes into a judgment
WholeContentJudged(r) ==
    /\ HasContent(r)
    /\ UnmarshalContent(r.Choices[1].Content).ok
    /\ UnmarshalJudgment(UnmarshalContent(r.Choices[1].Content).Arguments).ok

\* the first choice has a standard tool call
HasToolCalls(r) == Len(r.Choices) > 0 /\ Len(r.Choices[1].ToolCalls) > 0

\* the judgments of the marked tool request of the content
FromToolRequest(r) ==
    LET call == UnmarshalContent(Submatch(r.Choices[1].Content))
        j == UnmarshalJudgment(call.Arguments)
    IN  IF ~call.ok THEN Failed("could not unmarshal tool call response")
        ELSE IF ~j.ok
        THEN Failed("could not unmarshal judgment from tool call arguments")
        ELSE Judged(j.judgment)

\* the judgment of the whole content
FromWholeContent(r) ==
    Judged(UnmarshalJudgment(
               UnmarshalContent(r.Choices[1].Content).Arguments).judgment)

\* the judgment of the first standard tool call
FromToolCalls(r) ==
    LET j == UnmarshalJudgment(r.Choices[1].ToolCalls[1])
    IN  IF ~j.ok
        THEN Failed("could not unmarshal tool call arguments from standard field")
        ELSE Judged(j.judgment)

\* the limit of buildPrompt on the bytes of the body
BodyLimit == 4000

\* the fixed texts buildPrompt writes, each one piece of the prompt
wIntro ==
    "Please analyze the following email and determine if it is safe, spam, or phishing.\n\n"
wHeadersTitle == "--- Email Headers ---\n"
wFrom == "From: "
wTo == "To: "
wSubject == "Subject: "
wReturnPath == "Return-Path: "
wReplyTo == "Reply-To: "
wComma == ", "
wBodyTitle == "\n--- Email Body ---\n"
wTruncated == "\n... (truncated)"
wURLsTitle == "\n\n--- Extracted URLs---\n"
wNoURLs == "No URLs found.\n"
wInstructionsTitle == "\n--- Analysis Instructions---\n"
wInstructions ==
    "Based on all the information above, call the 'report_analysis_result' function with your conclusion."

\* strings.Join(L, ", ") of addresses, each address one piece
RECURSIVE JoinAddresses(_, _)
JoinAddresses(L, i) ==
    IF i > Len(L) THEN <<>>
    ELSE IF i = Len(L) THEN <<L[i]>>
    ELSE <<L[i], wComma>> \o JoinAddresses(L, i + 1)

\* the header lines of the prompt
HeaderSection(e) ==
    (IF Len(e.From) > 0 THEN <<wFrom, e.From[1], NL>> ELSE <<>>)
    \o (IF Len(e.To) > 0
        THEN <<wTo>> \o JoinAddresses(e.To, 1) \o <<NL>> ELSE <<>>)
    \o <<wSubject, e.Subject, NL>>
    \o (IF e.ReturnPath.err = Nil
        THEN <<wReturnPath, e.ReturnPath.text, NL>> ELSE <<>>)
    \o (IF e.ReplyTo.err = Nil
        THEN <<wReplyTo>> \o JoinAddresses(e.ReplyTo.list, 1) \o <<NL>>
        ELSE <<>>)

\* a variant that cuts a body of BodyLimit bytes too
TruncateFromLimit(body) ==
    IF Len(body) >= BodyLimit
    THEN SubSeq(body, 1, BodyLimit - 1) \o <<wTruncated>>
    ELSE body

\* the body as the prompt holds it
Truncate(body) ==
    IF Len(body) > BodyLimit
    THEN SubSeq(body, 1, BodyLimit) \o <<wTruncated>>
    ELSE body

\* the lines of the URLs, each u + "\n"
RECURSIVE URLLines(_, _)
URLLines(L, i) ==
    IF i > Len(L) THEN <<>> ELSE L[i] \o <<NL>> \o URLLines(L, i + 1)

\* a variant that lists the first URL only
URLSectionFirstOnly(L) ==
    IF Len(L) > 0 THEN L[1] \o <<NL>> ELSE <<wNoURLs>>

\* what buildPrompt writes after the title of the URLs
URLSection(L) == IF Len(L) > 0 THEN URLLines(L, 1) ELSE <<wNoURLs>>

buildPrompt(e) ==
    <<wIntro, wHeadersTitle>>
    \o HeaderSection(e)
    \o <<wBodyTitle>>
    \o Truncate(e.Body)
    \o <<wURLsTitle>>
    \o URLSection(e.URLs)
    \o <<wInstructionsTitle, wInstructions>>

\* the tool of getAnalysisTool: its type, the name of its function and
\* the required parameters
getAnalysisTool ==
    [Type |-> "function",
     Name |-> "report_analysis_result",
     Required |-> <<"is_suspicious", "category", "reason",
                    "confidence_score">>]

\* ---- inputs of Analyze ----
Email(from, to, subject, body, L) ==
    [From |-> from, To |-> to, Subject |-> subject,
     ReturnPath |-> [err |-> Nil, text |-> ""],
     ReplyTo |-> [err |-> Nil, list |-> <<>>],
     Body |-> body, URLs |-> L]

wPromoURL == <<"h", "t", "t", "p", ":", "/", "/", "p", "r", "o", "m", "o", ".", "e", "x", "a", "m", "p", "l", "e", ".", "c", "o", "m">>

\* the bodies of TestEmailAnalyzer_Analyze
PromoBody == <<"B", "u", "y", " ", "n", "o", "w", " ", "a", "n", "d", " ", "g", "e", "t", " ", "5", "0", "%", " ", "o", "f", "f", ".", " ", "V", "i", "s", "i", "t", " ", "h", "t", "t", "p", ":", "/", "/", "p", "r", "o", "m", "o", ".", "e", "x", "a", "m", "p", "l", "e", ".", "c", "o", "m">>

LongBody(n) == [k \in 1..n |-> "a"]

Emails ==
    { Email(<<>>, <<>>, "Special Offer!", PromoBody, <<wPromoURL>>),
      Email(<<>>, <<>>, "Error test", <<>>, <<>>),
      Email(<<"a@example.com">>, <<"b@example.com", "c@example.com">>,
            "Hello", LongBody(BodyLimit), <<wUrlA, wUrlB>>),
      Email(<<"a@example.com">>, <<"b@example.com">>,
            "Hello", LongBody(BodyLimit + 1), <<wUrlB, wUrlA>>),
      [Email(<<>>, <<"b@example.com">>, "Re: Hello", <<"h", "i">>, <<>>)
           EXCEPT !.ReturnPath = [err |-> "decode", text |-> ""],
                  !.ReplyTo = [err |-> "parse", list |-> <<>>]],
      [Email(<<>>, <<>>, "", LongBody(BodyLimit + 2), <<wUrlA>>)
           EXCEPT !.ReturnPath = [err |-> Nil, text |-> "r@example.com"],
                  !.ReplyTo = [err |-> Nil, list |-> <<"a@example.com">>]] }

\* ---- the responses of the API ----
CallGood == Doc(ToolCallDoc("object", "report_analysis_result", <<ArgsSafe>>))
CallNoArguments == Doc(ToolCallDoc("object", "report_analysis_result", <<>>))
CallBadArguments ==
    Doc(ToolCallDoc("object", "report_analysis_result", <<ArgsBadType>>))
CallNullArguments ==
    Doc(ToolCallDoc("object", "report_analysis_result", <<ArgsNull>>))
CallMalformed == Doc(ToolCallDoc("malformed", "", <<>>))

Contents ==
    { <<>>,
      <<Words>>,
      <<CallGood>>,
      <<Space, CallGood, Space>>,
      <<Words, CallGood>>,
      <<CallNoArguments>>,
      <<CallBadArguments>>,
      <<CallNullArguments>>,
      <<CallMalformed>>,
      <<Open, CallGood, Close>>,
      <<Words, Open, Space, CallGood, Space, Close, Words>>,
      <<Open, Words, Close>>,
      <<Open, Close>>,
      <<Open, CallBadArguments, Close>>,
      <<Open, CallNoArguments, Close>>,
      <<Open, CallGood, Close, Words, Close>>,
      <<Open, CallGood>>,
      <<Close, CallGood, Open>> }

ToolCallLists ==
    { <<>>, <<ArgsPhishing>>, <<ArgsSafe, ArgsMalformed>>, <<ArgsMalformed>>,
      <<ArgsEmpty>>, <<ArgsNull>>, <<ArgsString>>, <<ArgsBadType>>,
      <<ArgsObjectEmpty>> }

Responses ==
    { Response("fails", FALSE, <<>>, <<>>),
      Response("ok", FALSE, <<>>, <<>>),
      Response("ok", TRUE, <<APIError>>, <<>>),
      Response("ok", TRUE, <<APIError>>, <<Choice(<<>>, <<ArgsPhishing>>)>>),
      Response("ok", TRUE, <<APIError>>, <<Choice(<<CallGood>>, <<>>)>>),
      Response("ok", TRUE, <<>>, <<>>) }
    \cup { Response("ok", TRUE, <<>>, <<Choice(c, t)>>) :
               c \in Contents, t \in ToolCallLists }
    \cup { Response("ok", TRUE, <<>>,
                    <<Choice(<<>>, <<>>), Choice(<<CallGood>>, <<ArgsPhishing>>)>>) }

\* ---- Analyze, with the OpenAIProvider as its provider ----
NoJudgment == [judgment |-> <<>>, err |-> Nil]

InitAnalyze ==
    /\ msg = Nil
    /\ pc = "Idle"
    /\ idx = 1
    /\ urls = <<>>
    /\ bodyBuilder = <<>>
    /\ result = NoResult
    /\ mbox = <<>>
    /\ mpos = 1
    /\ results = <<>>
    /\ warnings = <<>>
    /\ mainPc = "Idle"
    /\ ConfigIdle
    /\ ReaderSound
    /\ ConvertIdle
    /\ anEmail \in Emails
    /\ apiResponse \in Responses
    /\ anPc = "Analyze"
    /\ prompt = <<>>
    /\ tools = <<>>
    /\ toolChoice = ""
    /\ calls = 0
    /\ judgment = NoJudgment
    /\ anResult = NoJudgment

\* Analyze builds the prompt and the tool
AnalyzeBuildPrompt ==
    /\ anPc = "Analyze"
    /\ prompt' = buildPrompt(anEmail)
    /\ tools' = <<getAnalysisTool>>
    /\ toolChoice' = "auto"
    /\ anPc' = "AnalyzeText"
    /\ UNCHANGED <<anEmail, calls, apiResponse, judgment, anResult>>
    /\ UNCHANGED <<parseVars, mainVars, cfgVars, readerVars, convVars>>

\* the provider is called and returns r
Provide(r) ==
    /\ calls' = calls + 1
    /\ judgment' = r
    /\ anPc' = "Return"
    /\ UNCHANGED <<anEmail, prompt, tools, toolChoice, apiResponse, anResult>>
    /\ UNCHANGED <<parseVars, mainVars, cfgVars, readerVars, convVars>>

\* the request fails, or the read of the response's body
AnalyzeTextRequestFails ==
    /\ anPc = "AnalyzeText"
    /\ apiResponse.transport # "ok"
    /\ Provide(Failed("HTTP request failed"))

AnalyzeTextDecodeFails ==
    /\ anPc = "AnalyzeText"
    /\ apiResponse.transport = "ok"
    /\ ~apiResponse.decodes
    /\ Provide(Failed("could not decode API response"))

\* the response decodes
Decoded == apiResponse.transport = "ok" /\ apiResponse.decodes

AnalyzeTextAPIError ==
    /\ anPc = "AnalyzeText"
    /\ Decoded
    /\ HasAPIError(apiResponse)
    /\ Provide(Failed("API error"))

\* the content holds a marked tool request: its outcome is returned
AnalyzeTextToolRequest ==
    /\ anPc = "AnalyzeText"
    /\ Decoded
    /\ ~HasAPIError(apiResponse)
    /\ HasToolRequest(apiResponse)
    /\ Provide(FromToolRequest(apiResponse))

\* the whole content is a tool call whose arguments decode
AnalyzeTextWholeContent ==
    /\ anPc = "AnalyzeText"
    /\ Decoded
    /\ ~HasAPIError(apiResponse)
    /\ ~HasToolRequest(apiResponse)
    /\ WholeContentJudged(apiResponse)
    /\ Provide(FromWholeContent(apiResponse))

\* the fall back to the standard tool_calls field
AnalyzeTextToolCalls ==
    /\ anPc = "AnalyzeText"
    /\ Decoded
    /\ ~HasAPIError(apiResponse)
    /\ ~HasToolRequest(apiResponse)
    /\ ~WholeContentJudged(apiResponse)
    /\ HasToolCalls(apiResponse)
    /\ Provide(FromToolCalls(apiResponse))

AnalyzeTextNoToolCall ==
    /\ anPc = "AnalyzeText"
    /\ Decoded
    /\ ~HasAPIError(apiResponse)
    /\ ~HasToolRequest(apiResponse)
    /\ ~WholeContentJudged(apiResponse)
    /\ ~HasToolCalls(apiResponse)
    /\ Provide(Failed("API did not return a valid tool call in expected format"))

\* a variant that returns the judgment and drops the error
AnalyzeReturnNoError ==
    /\ anPc = "Return"
    /\ anResult' = [judgment EXCEPT !.err = Nil]
    /\ anPc' = "Done"
    /\ UNCHANGED <<anEmail, prompt, tools, toolChoice, calls, apiResponse,
                   judgment>>
    /\ UNCHANGED <<parseVars, mainVars, cfgVars, readerVars, convVars>>

\* Analyze returns what the provider returned
AnalyzeReturn ==
    /\ anPc = "Return"
    /\ anResult' = judgment
    /\ anPc' = "Done"
    /\ UNCHANGED <<anEmail, prompt, tools, toolChoice, calls, apiResponse,
                   judgment>>
    /\ UNCHANGED <<parseVars, mainVars, cfgVars, readerVars, convVars>>

NextAnalyze ==
    \/ AnalyzeBuildPrompt
    \/ AnalyzeTextRequestFails
    \/ AnalyzeTextDecodeFails
    \/ AnalyzeTextAPIError
    \/ AnalyzeTextToolRequest
    \/ AnalyzeTextWholeContent
    \/ AnalyzeTextToolCalls
    \/ AnalyzeTextNoToolCall
    \/ AnalyzeReturn

SpecAnalyze == InitAnalyze /\ [][NextAnalyze]_vars

\* ---------------------------------------------------------------------
\* converter: ConvertToUTF8
\* ---------------------------------------------------------------------

\* the pieces of a header block: the end of a line, and the texts of a
\* line up to its value or its charset label
CRLF == "\r\n"
wSubjectLine == "Subject: hi"
wFromLine == "From: a@example.com"
wContentTypePlain == "Content-Type: text/plain"
wContentTypeBad == "Content-Type: text/plain; charset"
wContentTypeCharset == "Content-Type: text/plain; charset="

\* a header line with a charset parameter
ContentTypeLine(label) == <<wContentTypeCharset>> \o label \o <<CRLF>>

\* the lines of b, each with its CRLF, from position i up to the blank
\* line or the end: tr.ReadMIMEHeader()
RECURSIVE HeaderLinesFrom(_, _)
HeaderLinesFrom(b, i) ==
    LET ends == {j \in i..Len(b) : b[j] = CRLF}
    IN  IF i > Len(b) \/ b[i] = CRLF \/ ends = {} THEN <<>>
        ELSE <<SubSeq(b, i, Min(ends))>> \o HeaderLinesFrom(b, Min(ends) + 1)

ReadMIMEHeader(b) == HeaderLinesFrom(b, 1)

\* the charset parameter of the Content-Type line of the header, lower
\* cased; <<>> without such a line, without the parameter or when
\* mime.ParseMediaType fails
DetectedCharset(lines) ==
    LET cts == {k \in 1..Len(lines) : lines[k][1] = wContentTypeCharset}
    IN  IF cts = {} THEN <<>>
        ELSE ToLower(SubSeq(lines[Min(cts)], 2, Len(lines[Min(cts)]) - 1))

\* the header with the charset of its Content-Type set to UTF-8
RewriteCharset(lines) ==
    [k \in 1..Len(lines) |->
        IF lines[k][1] = wContentTypeCharset
        THEN ContentTypeLine(lUTF8Upper) ELSE lines[k]]

\* the orders in which a range over the header map may write n lines
Orders(n) ==
    {p \in [1..n -> 1..n] : \A i, j \in 1..n : p[i] = p[j] => i = j}

RECURSIVE WriteLines(_, _, _)
WriteLines(lines, p, k) ==
    IF k > Len(lines) THEN <<>>
    ELSE lines[p[k]] \o WriteLines(lines, p, k + 1)

\* decodedBodyBytes: transform.Bytes over contentBytes
DecodedBytes(dec, b) == Transform(dec, b)

\* the bytes of the reader that ConvertToUTF8 returns on success
Reconstruct(b, dec, p) ==
    WriteLines(RewriteCharset(ReadMIMEHeader(b)), p, 1)
    \o <<CRLF>>
    \o DecodedBytes(dec, b)

\* ---- inputs of ConvertToUTF8 ----
HeaderBlocks ==
    {<<>>, <<wSubjectLine, CRLF>>, <<wContentTypePlain, CRLF>>,
     <<wSubjectLine, CRLF, wContentTypeBad, CRLF>>}
    \cup {ContentTypeLine(cs) : cs \in Labels \ {NoCharset}}
    \cup {<<wSubjectLine, CRLF>> \o ContentTypeLine(cs) :
             cs \in {lShiftJISUpper, lIso2022jp, lEucJpH, lUtf8, lLatin1}}
    \cup {ContentTypeLine(cs) \o <<wFromLine, CRLF>> :
             cs \in {lShiftJisH, lEucJpU}}

ConvertBodies == {<<>>, <<"x">>, <<"x", HiByte>>, <<HiByte, HiByte, "y">>}

Readers ==
    {[readErr |-> FALSE, decodeFails |-> f,
      bytes |-> h \o <<CRLF>> \o t] :
        f \in BOOLEAN, h \in HeaderBlocks, t \in ConvertBodies}
    \cup {[readErr |-> FALSE, decodeFails |-> FALSE, bytes |-> h] :
              h \in HeaderBlocks}
    \cup {[readErr |-> TRUE, decodeFails |-> FALSE, bytes |-> <<>>]}

NotConverted == [out |-> <<>>, err |-> Nil]

InitConvert ==
    /\ msg = Nil
    /\ pc = "Idle"
    /\ idx = 1
    /\ urls = <<>>
    /\ bodyBuilder = <<>>
    /\ result = NoResult
    /\ mbox = <<>>
    /\ mpos = 1
    /\ results = <<>>
    /\ warnings = <<>>
    /\ mainPc = "Idle"
    /\ ConfigIdle
    /\ ReaderSound
    /\ AnalyzeIdle
    /\ convReader \in Readers
    /\ convPc = "ConvertToUTF8"
    /\ converted = NotConverted

\* ConvertToUTF8 returns out and err
ConvertReturns(out, err) ==
    /\ converted' = [out |-> out, err |-> err]
    /\ convPc' = "Done"
    /\ UNCHANGED convReader
    /\ UNCHANGED <<parseVars, mainVars, cfgVars, readerVars, anVars>>

\* detectedCharset of the bytes of the reader
Detected == DetectedCharset(ReadMIMEHeader(convReader.bytes))

\* io.ReadAll(r) fails
ConvertReadFails ==
    /\ convPc = "ConvertToUTF8"
    /\ convReader.readErr
    /\ ConvertReturns(<<>>, "failed to read email content for conversion")

\* no charset detected, or utf-8: the original content
ConvertNoCharset ==
    /\ convPc = "ConvertToUTF8"
    /\ ~convReader.readErr
    /\ Detected = <<>> \/ Detected = lUtf8
    /\ ConvertReturns(convReader.bytes, Nil)

\* a charset outside the switch: the original content
ConvertUnsupported ==
    /\ convPc = "ConvertToUTF8"
    /\ ~convReader.readErr
    /\ Detected # <<>> /\ Detected # lUtf8
    /\ DecoderFor(Detected) = "unsupported"
    /\ ConvertReturns(convReader.bytes, Nil)

\* transform.Bytes fails
ConvertDecodeFails ==
    /\ convPc = "ConvertToUTF8"
    /\ ~convReader.readErr
    /\ DecoderFor(Detected) \in {"ISO2022JP", "ShiftJIS", "EUCJP"}
    /\ convReader.decodeFails
    /\ ConvertReturns(<<>>, "failed to decode content")

\* the header is written again, in the order of the range over the map,
\* then the decoded bytes
ConvertRewrite ==
    /\ convPc = "ConvertToUTF8"
    /\ ~convReader.readErr
    /\ DecoderFor(Detected) \in {"ISO2022JP", "ShiftJIS", "EUCJP"}
    /\ ~convReader.decodeFails
    /\ \E p \in Orders(Len(ReadMIMEHeader(convReader.bytes))) :
           ConvertReturns(Reconstruct(convReader.bytes, DecoderFor(Detected), p),
                          Nil)

NextConvert ==
    \/ ConvertReadFails
    \/ ConvertNoCharset
    \/ ConvertUnsupported
    \/ ConvertDecodeFails
    \/ ConvertRewrite

SpecConvert == InitConvert /\ [][NextConvert]_vars

\* the variable the README documents for a setting
DocumentedEnvKey(f) ==
    CASE f = "OpenAIAPIKey" -> "OPENAI_API_KEY"
      [] f = "OpenAIBaseURL" -> "OPENAI_API_BASE_URL"
      [] f = "ModelName" -> "MODEL_NAME"

\* C21: every setting is overridden by its documented environment
\* variable: when OPENAI_API_KEY, OPENAI_API_BASE_URL or MODEL_NAME is set
\* to a value, Load returns that value for the API key, the base URL or
\* the model name, whatever the file holds.
C21_DocumentedEnvOverrides ==
    Loaded
    => \A f \in Fields :
           environ[DocumentedEnvKey(f)] = <<"env-value">>
           => loadResult.cfg[1][f] = "env-value"

\* AnalyzeText has returned
Answered == anPc \in {"Return", "Done"}

\* the arguments of the tool calls the response holds in a form AnalyzeText
\* reads: a marked tool request, the whole content, the first standard
\* tool call
SupportedArguments(r) ==
    (IF HasToolRequest(r)
        /\ UnmarshalContent(Submatch(r.Choices[1].Content)).ok
     THEN {UnmarshalContent(Submatch(r.Choices[1].Content)).Arguments}
     ELSE {})
    \cup (IF HasContent(r) /\ UnmarshalContent(r.Choices[1].Content).ok
          THEN {UnmarshalContent(r.Choices[1].Content).Arguments}
          ELSE {})
    \cup (IF HasToolCalls(r) THEN {r.Choices[1].ToolCalls[1]} ELSE {})

\* C22: AnalyzeText returns an error and a nil judgment whenever the
\* response carries an error object, whatever choices it carries too, or
\* holds no tool call in a supported form; a judgment comes with a nil
\* error, only when the arguments of a tool call decode into a Judgment,
\* and its fields are the decoded arguments.
C22_ErrorOrDecodedJudgment ==
    Answered
    => /\ (judgment.err # Nil) = (judgment.judgment = <<>>)
       /\ (Decoded /\ apiResponse.Error # <<>>) => judgment.err # Nil
       /\ (Decoded /\ SupportedArguments(apiResponse) = {})
          => judgment.err # Nil
       /\ ~Decoded => judgment.err # Nil
       /\ judgment.err = Nil
          => \E a \in SupportedArguments(apiResponse) :
                 /\ UnmarshalJudgment(a).ok
                 /\ judgment.judgment = <<UnmarshalJudgment(a).judgment>>

\* an error object next to a choice with a sound tool call: an error
C22_Witness ==
    /\ Answered
    /\ apiResponse.Error # <<>>
    /\ HasToolCalls(apiResponse)
    /\ UnmarshalJudgment(apiResponse.Choices[1].ToolCalls[1]).ok
    /\ judgment.err = "API error"
    /\ judgment.judgment = <<>>

\* C23: Analyze calls the provider exactly once, with a prompt that holds
\* the subject of the email and every extracted URL and with exactly one
\* tool, named report_analysis_result; it returns the judgment of the
\* provider unchanged on success, and a nil judgment with the error of the
\* provider on failure.
C23_AnalyzeCallsProviderOnce ==
    /\ calls <= 1
    /\ Answered
       => /\ calls = 1
          /\ Contains(prompt, <<wSubject, anEmail.Subject, NL>>)
          /\ \A k \in 1..Len(anEmail.URLs) :
                 Contains(prompt, anEmail.URLs[k])
          /\ Len(tools) = 1
          /\ tools[1].Name = "report_analysis_result"
    /\ anPc = "Done"
       => /\ judgment.err = Nil => anResult = judgment
          /\ judgment.err # Nil
             => anResult.judgment = <<>> /\ anResult.err = judgment.err

\* Analyze has returned a judgment for an email with two URLs
C23_Witness ==
    /\ anPc = "Done"
    /\ Len(anEmail.URLs) = 2
    /\ calls = 1
    /\ anResult.err = Nil
    /\ anResult.judgment # <<>>

\* the end of the tag span that starts at i, line breaks allowed inside
TagEndAcross(t, i) ==
    LET gts == {j \in (i + 1)..Len(t) : t[j] = GT}
    IN  IF t[i] = LT /\ gts # {} THEN Min(gts) ELSE 0

\* t with every tag span replaced by a space, from position i
RECURSIVE StripAcrossFrom(_, _)
StripAcrossFrom(t, i) ==
    LET starts == {j \in i..Len(t) : TagEndAcross(t, j) > 0}
    IN  IF starts = {} THEN Slice(t, i, Len(t))
        ELSE Slice(t, i, Min(starts) - 1) \o <<SP>>
             \o StripAcrossFrom(t, TagEndAcross(t, Min(starts)) + 1)

\* a body of type text/html without a charset
IsSingleHTML(m) ==
    IsSingleText(m) /\ m.minor = "html" /\ m.charset = NoCharset

\* C24: in a text/html body every tag span is replaced by a space before
\* the free-text pass: the stripped text holds no '<' that a '>' follows,
\* tags that span a line break included, and the free-text pass harvests
\* no URL from inside a tag.
C24_AllTagSpansStripped ==
    (Returned /\ IsSingleHTML(msg))
    => /\ \A i, j \in 1..Len(result.email[1].Body) :
              ~(i < j /\ result.email[1].Body[i] = LT
                      /\ result.email[1].Body[j] = GT)
       /\ Range(FreePass(StripTags(msg.body)))
              \subseteq Range(FreePass(StripAcrossFrom(msg.body, 1)))

\* the content of the first choice yields a judgment, from a marked tool
\* request or as a whole
ContentJudged(r) ==
    \/ HasToolRequest(r) /\ FromToolRequest(r).err = Nil
    \/ ~HasToolRequest(r) /\ WholeContentJudged(r)

\* the first standard tool call decodes into a judgment
ToolCallsJudged(r) ==
    HasToolCalls(r) /\ UnmarshalJudgment(r.Choices[1].ToolCalls[1]).ok

\* C25: the standard tool_calls field is the fall back whenever the
\* content cannot be parsed as a tool call, with or without the
\* [TOOL_REQUEST] markers: with a sound standard tool call AnalyzeText
\* then returns its judgment and no error.
C25_ToolCallsFallBack ==
    (/\ Answered
     /\ Decoded
     /\ ~HasAPIError(apiResponse)
     /\ ~ContentJudged(apiResponse)
     /\ ToolCallsJudged(apiResponse))
    => judgment = FromToolCalls(apiResponse)

\* C26: every entry of the URL list Parse returns begins with http:// or
\* https:// and has at least one character after the scheme separator,
\* also after the trim of trailing punctuation; no entry is empty.
C26_URLHasSchemeAndRest ==
    Returned
    => \A k \in 1..Len(result.email[1].URLs) :
           /\ SchemeLen(result.email[1].URLs[k], 1) > 0
           /\ Len(result.email[1].URLs[k])
                  > SchemeLen(result.email[1].URLs[k], 1)

\* C27: Parse ends on every input; the loop over the parts does not go on
\* for ever, also when a read error persists.
C27_ParseTerminates == <>(pc = "Done")

\* the message that has the header and the payload of a child part
Standalone(p) ==
    [Message(p.major, p.minor, p.charset, p.content)
        EXCEPT !.ctErr = p.ctErr, !.decodeFails = p.decodeFails]

\* a message of one child that the reader delivers, no container itself
HasOneLeafChild(m) ==
    /\ IsMultipartWithBoundary(m)
    /\ Len(m.parts) = 1
    /\ ~m.parts[1].nextErr
    /\ ~m.parts[1].readErr
    /\ m.parts[1].major # "multipart"

\* C28: a multipart child is processed by the rules of a non-multipart
\* body: with its Content-Type header, an absent one included, and its
\* payload it contributes the text and the URLs that the same header and
\* payload give as a message of their own.
C28_ChildAsStandalone ==
    (Returned /\ HasOneLeafChild(msg))
    => /\ result.email[1].URLs
              = Parse(Standalone(msg.parts[1])).email[1].URLs
       /\ result.email[1].Body
              = Parse(Standalone(msg.parts[1])).email[1].Body

\* the place of a title in the prompt
IndexOf(t, w) == CHOOSE i \in 1..Len(t) : t[i] = w

\* what the prompt holds between the title of the body and that of the URLs
BodyPart(t) == Slice(t, IndexOf(t, wBodyTitle) + 1, IndexOf(t, wURLsTitle) - 1)

\* what the prompt holds between the title of the URLs and the instructions
URLPart(t) ==
    Slice(t, IndexOf(t, wURLsTitle) + 1, IndexOf(t, wInstructionsTitle) - 1)

\* C29: the prompt holds the body in full when it has at most 4000 bytes,
\* and otherwise exactly its first 4000 bytes followed by
\* "\n... (truncated)"; the URL section lists every URL on a line of its
\* own, in the order of the list, and holds "No URLs found." exactly when
\* the list is empty.
C29_BodyCutAndURLsListed ==
    Answered
    => /\ Len(anEmail.Body) <= BodyLimit => BodyPart(prompt) = anEmail.Body
       /\ Len(anEmail.Body) > BodyLimit
          => /\ Len(BodyPart(prompt)) = BodyLimit + 1
             /\ SubSeq(BodyPart(prompt), 1, BodyLimit)
                    = SubSeq(anEmail.Body, 1, BodyLimit)
             /\ BodyPart(prompt)[BodyLimit + 1] = wTruncated
       /\ anEmail.URLs # <<>>
          => URLPart(prompt) = JoinLines(anEmail.URLs, 1) \o <<NL>>
       /\ anEmail.URLs = <<>> => URLPart(prompt) = <<wNoURLs>>
       /\ (wNoURLs \in Range(prompt)) = (anEmail.URLs = <<>>)

\* a body of one byte more than the limit, cut, and two URLs listed
C29_Witness ==
    /\ Answered
    /\ Len(anEmail.Body) = BodyLimit + 1
    /\ wTruncated \in Range(prompt)
    /\ Len(anEmail.URLs) = 2
    /\ URLPart(prompt) = anEmail.URLs[1] \o <<NL>> \o anEmail.URLs[2] \o <<NL>>

\* what follows the first blank line of b; <<>> without a blank line
AfterHeader(b) ==
    LET ends == {j \in 1..Len(b) : b[j] = CRLF /\ (j = 1 \/ b[j - 1] = CRLF)}
    IN  IF ends = {} THEN <<>> ELSE SubSeq(b, Min(ends) + 1, Len(b))

\* ConvertToUTF8 has returned a converted content
Rewritten ==
    /\ convPc = "Done"
    /\ converted.err = Nil
    /\ DecoderFor(Detected) \in {"ISO2022JP", "ShiftJIS", "EUCJP"}

\* C30: ConvertToUTF8 returns the input unchanged when no charset is
\* detected, when it is utf-8 and when it is unsupported; when it
\* converts, the output is one header block, with the charset rewritten
\* to UTF-8, followed by the decoded body only: the original header
\* block is not there a second time.
C30_OneHeaderThenDecodedBody ==
    /\ (convPc = "Done" /\ ~convReader.readErr
          /\ DecoderFor(Detected) \in {"utf-8", "unsupported"})
       => converted = [out |-> convReader.bytes, err |-> Nil]
    /\ Rewritten
       => /\ AfterHeader(converted.out)
                = Transform(DecoderFor(Detected), AfterHeader(convReader.bytes))
          /\ ReadMIMEHeader(converted.out)
                \in {[k \in 1..Len(ReadMIMEHeader(convReader.bytes)) |->
                         RewriteCharset(ReadMIMEHeader(convReader.bytes))[p[k]]] :
                        p \in Orders(Len(ReadMIMEHeader(convReader.bytes)))}
====
